---- MODULE Spec2Model ----
(***************************************************************************)
(* Model of cookdown's format-normalization pipeline: the Crumb and        *)
(* Paprika parsers and the parser registry (src/src/cookdown/parsers),     *)
(* the markdown formatter (src/src/cookdown/formatter.py) and the batch    *)
(* driver with its worker pool (src/src/cookdown/batch.py).                *)
(*                                                                         *)
(* Python strings are modelled as sequences of one-character strings, so   *)
(* that lower(), endswith(), strip(), split(), re.sub() and the f-string   *)
(* formatting are computed character by character.  A missing mapping key  *)
(* is the empty sequence <<>>, a present key is the one-element sequence   *)
(* <<value>>.                                                              *)
(***************************************************************************)
EXTENDS Integers, Sequences, FiniteSets, TLC

VARIABLES
    recipe,                  \* raw recipe mapping returned by parse_file, with the parser variant
    pc,                      \* position of convert_to_markdown
    recipe_name,             \* formatter.py:144
    normalized_ingredients,  \* formatter.py:145
    normalized_instructions, \* formatter.py:146
    image_data_list,         \* formatter.py:147
    metadata,                \* formatter.py:148
    ingredients_list,        \* formatter.py:156
    directions,              \* formatter.py:159
    image_paths,             \* formatter.py:162
    img_idx,                 \* loop position of formatter.py:163
    files,                   \* output directory: relative path -> content
    decoded,                 \* history: payloads handed to base64.b64decode
    opened,                  \* history: paths opened for writing by this conversion
    saved,                   \* history: image paths whose write completed, in order
    failed,                  \* history: image paths whose decode or write raised
    formatted_steps,         \* formatter.py:64, as returned by format_instructions before the join
    images_dir,              \* whether <output_dir>/images exists
    exc,                     \* exception re-raised by convert_to_markdown, "" if none
    source,                  \* the file at filepath: extension and content
    parser_class,            \* formatter.py:114, "None" when the caller passes no parser
    message,                 \* str(e) of the exception re-raised by convert_to_markdown
    temp_dirs,               \* number of paprika_ temporary directories that exist
    PARSERS,                 \* parsers/__init__.py:11, the registry dict in insertion order
    calls,                   \* history: the register_parser calls made so far
    lookup,                  \* the last get_parser_for_extension call and what it returned
    input_dir,               \* the files of the input directory of batch_convert
    extensions,              \* batch.py:141, "None" when the caller passes no list
    max_workers,             \* batch.py:138
    batch_pc,                \* position of batch_convert
    recipe_files,            \* batch.py:169
    futures,                 \* batch.py:195, the state of each submitted convert_file call
    results,                 \* batch.py:186
    successful_conversions,  \* batch.py:187
    failed_conversions,      \* batch.py:188
    conversions,             \* the convert_to_markdown calls that run in worker threads at once
    write_log                \* history: the writes that completed, in order

\* what convert_to_markdown leaves alone once parse_file has returned
\* the state of batch_convert
batch_vars == << input_dir, extensions, max_workers, batch_pc, recipe_files, futures,
                results, successful_conversions, failed_conversions, conversions,
                write_log >>

other_vars == << source, parser_class, temp_dirs, PARSERS, calls, lookup, batch_vars >>

vars == << recipe, pc, recipe_name, normalized_ingredients, normalized_instructions,
           image_data_list, metadata, ingredients_list, directions, image_paths,
           img_idx, files, decoded, opened, saved, failed, formatted_steps,
           images_dir, exc, message, other_vars >>

-----------------------------------------------------------------------------
(* Bounds of the explored inputs *)

MaxIngredients == 3
MaxSteps == 3
MaxStepTextLen == 7
MaxImages == 3

-----------------------------------------------------------------------------
(* Strings *)

Range(s) == { s[i] : i \in 1..Len(s) }

SeqsUpTo(S, n) == UNION { [1..k -> S] : k \in 0..n }

Lowercase == << "a", "b", "c", "d", "e", "f", "g", "h", "i", "j", "k", "l", "m",
               "n", "o", "p", "q", "r", "s", "t", "u", "v", "w", "x", "y", "z" >>
Uppercase == << "A", "B", "C", "D", "E", "F", "G", "H", "I", "J", "K", "L", "M",
               "N", "O", "P", "Q", "R", "S", "T", "U", "V", "W", "X", "Y", "Z" >>

\* c.lower()
LowerChar(c) ==
    IF \E i \in 1..26 : Uppercase[i] = c
    THEN Lowercase[CHOOSE i \in 1..26 : Uppercase[i] = c]
    ELSE c

Lower(s) == [ i \in 1..Len(s) |-> LowerChar(s[i]) ]

EndsWith(s, suffix) ==
    /\ Len(suffix) <= Len(s)
    /\ SubSeq(s, Len(s) - Len(suffix) + 1, Len(s)) = suffix

StartsWith(s, prefix) ==
    /\ Len(prefix) <= Len(s)
    /\ SubSeq(s, 1, Len(prefix)) = prefix

Digits == << "0", "1", "2", "3", "4", "5", "6", "7", "8", "9" >>

RECURSIVE IntStr(_)
IntStr(n) == IF n < 10 THEN << Digits[n + 1] >>
             ELSE IntStr(n \div 10) \o << Digits[(n % 10) + 1] >>

\* the character class [a-zA-Z0-9]
AlphaNum == { Lowercase[i] : i \in 1..26 } \cup { Uppercase[i] : i \in 1..26 }
                \cup { Digits[i] : i \in 1..10 }

\* whitespace as seen by str.strip() and the regex class \s
IsSpace(c) == c \in { " ", "\n", "\t" }

\* JSON numbers are modelled in halves: [halves |-> 3] is 1.5
NumStr(h) == IF h % 2 = 0 THEN IntStr(h \div 2)
             ELSE IntStr(h \div 2) \o << ".", "5" >>

Num(h) == [ kind |-> "num", halves |-> h ]
StrVal(s) == [ kind |-> "str", s |-> s ]

\* Python truthiness of an amount: 0 and "" are false
Truthy(a) == IF a.kind = "num" THEN a.halves # 0 ELSE a.s # << >>

\* f"{amount}"
Fmt(a) == IF a.kind = "num" THEN NumStr(a.halves) ELSE a.s

-----------------------------------------------------------------------------
(* CrumbParser.get_ingredients *)

\* x.get("order", 0)
OrderKey(x) == IF x.order = << >> THEN 0 ELSE x.order[1]

\* InsertByOrder that places an entry before the entries of equal order
RECURSIVE InsertByOrderUnstable(_, _)
InsertByOrderUnstable(sorted, x) ==
    IF sorted = << >> THEN << x >>
    ELSE IF OrderKey(sorted[Len(sorted)]) < OrderKey(x)
         THEN Append(sorted, x)
         ELSE Append(InsertByOrderUnstable(SubSeq(sorted, 1, Len(sorted) - 1), x),
                     sorted[Len(sorted)])

\* sorted(seq, key=lambda x: x.get("order", 0)): a stable sort
RECURSIVE InsertByOrder(_, _)
InsertByOrder(sorted, x) ==
    IF sorted = << >> THEN << x >>
    ELSE IF OrderKey(sorted[Len(sorted)]) <= OrderKey(x)
         THEN Append(sorted, x)
         ELSE Append(InsertByOrder(SubSeq(sorted, 1, Len(sorted) - 1), x),
                     sorted[Len(sorted)])

RECURSIVE SortedByOrder(_)
SortedByOrder(seq) ==
    IF seq = << >> THEN << >>
    ELSE InsertByOrder(SortedByOrder(SubSeq(seq, 1, Len(seq) - 1)), seq[Len(seq)])

\* mapping.get(key, default)
Get(opt, default) == IF opt = << >> THEN default ELSE opt[1]

\* one loop body of CrumbParser.get_ingredients
CrumbNormalizeIngredient(item) ==
    LET ingredient    == Get(item.ingredient, [ name |-> << >> ])
        quantity_info == Get(item.quantity, [ amount |-> << >>, quantityType |-> << >> ])
    IN  [ name   |-> Get(ingredient.name, << >>),
          amount |-> IF quantity_info.amount = << >> THEN StrVal(<< >>)
                     ELSE Num(quantity_info.amount[1]),
          unit   |-> Get(quantity_info.quantityType, << >>),
          raw    |-> item ]

CrumbGetIngredients(r) ==
    LET sorted_ingredients == SortedByOrder(Get(r.ingredients, << >>))
    IN  [ i \in 1..Len(sorted_ingredients) |->
            CrumbNormalizeIngredient(sorted_ingredients[i]) ]

-----------------------------------------------------------------------------
(* format_ingredients *)

pound == << "p", "o", "u", "n", "d" >>

\* PluralUnit without the exception for "pound"
PluralUnitNoPound(amount, unit) ==
    LET unit_lower == Lower(unit)
    IN  IF amount.halves > 2 /\ ~ EndsWith(unit_lower, << "s" >>)
        THEN unit_lower \o << "s" >>
        ELSE unit_lower

\* the "amount and unit" branch of one loop body; the comparison amount > 1
\* is defined for numbers only
PluralUnit(amount, unit) ==
    LET unit_lower == Lower(unit)
    IN  IF /\ amount.halves > 2
           /\ unit_lower # pound
           /\ ~ EndsWith(unit_lower, << "s" >>)
        THEN unit_lower \o << "s" >>
        ELSE unit_lower

\* amount > 1 raises TypeError when amount is a str
IngredientRaises(item) ==
    /\ Truthy(item.amount)
    /\ item.unit # << >>
    /\ item.amount.kind = "str"

FormatIngredient(item) ==
    IF Truthy(item.amount) /\ item.unit # << >>
    THEN Fmt(item.amount) \o << " " >> \o PluralUnit(item.amount, item.unit)
            \o << " " >> \o item.name
    ELSE item.name

\* [ok |-> FALSE] stands for the TypeError leaving the function
FormatIngredients(ingredients) ==
    IF \E i \in 1..Len(ingredients) : IngredientRaises(ingredients[i])
    THEN [ ok |-> FALSE, val |-> << >> ]
    ELSE [ ok |-> TRUE,
           val |-> [ i \in 1..Len(ingredients) |-> FormatIngredient(ingredients[i]) ] ]

-----------------------------------------------------------------------------
(* PaprikaParser.get_ingredients *)

\* index of the first occurrence of character c in s at or after i, 0 if none
RECURSIVE Find(_, _, _)
Find(s, c, i) ==
    IF i > Len(s) THEN 0
    ELSE IF s[i] = c THEN i
    ELSE Find(s, c, i + 1)

\* s.split(sep, maxsplit) for a one-character separator
RECURSIVE SplitMax(_, _, _)
SplitMax(s, sep, maxsplit) ==
    LET i == Find(s, sep, 1)
    IN  IF maxsplit = 0 \/ i = 0 THEN << s >>
        ELSE << SubSeq(s, 1, i - 1) >>
                \o SplitMax(SubSeq(s, i + 1, Len(s)), sep, maxsplit - 1)

\* s.split(sep)
Split(s, sep) == SplitMax(s, sep, Len(s))

RECURSIVE LStrip(_)
LStrip(s) == IF s # << >> /\ IsSpace(s[1]) THEN LStrip(Tail(s)) ELSE s

RECURSIVE RStrip(_)
RStrip(s) == IF s # << >> /\ IsSpace(s[Len(s)])
             THEN RStrip(SubSeq(s, 1, Len(s) - 1)) ELSE s

\* s.strip()
Strip(s) == RStrip(LStrip(s))

\* s.replace(c, '', 1)
RemoveFirst(s, c) ==
    LET i == Find(s, c, 1)
    IN  IF i = 0 THEN s ELSE SubSeq(s, 1, i - 1) \o SubSeq(s, i + 1, Len(s))

\* s.isdigit()
IsDigit(s) == s # << >> /\ \A i \in 1..Len(s) : s[i] \in Range(Digits)

\* the stripped, non-blank lines of a text block, in line order
NonBlankLines(text) ==
    LET lines == Split(text, "\n")
    IN  SelectSeq([ i \in 1..Len(lines) |-> Strip(lines[i]) ], LAMBDA l : l # << >>)

\* one loop body of PaprikaParser.get_ingredients; the amount stays the text token
PaprikaParseIngredient(line) ==
    LET parts == SplitMax(line, " ", 2)
    IN  IF Len(parts) >= 3 /\ IsDigit(RemoveFirst(parts[1], "."))
        THEN [ name |-> parts[3], amount |-> StrVal(parts[1]), unit |-> parts[2], raw |-> line ]
        ELSE IF Len(parts) >= 2 /\ IsDigit(RemoveFirst(parts[1], "."))
        THEN [ name |-> parts[2], amount |-> StrVal(parts[1]), unit |-> << >>, raw |-> line ]
        ELSE [ name |-> line, amount |-> StrVal(<< >>), unit |-> << >>, raw |-> line ]

PaprikaGetIngredients(r) ==
    LET lines == NonBlankLines(Get(r.ingredients, << >>))
    IN  [ i \in 1..Len(lines) |-> PaprikaParseIngredient(lines[i]) ]

-----------------------------------------------------------------------------
(* CrumbParser.get_instructions *)

\* LazyClose with a "." that also matches "\n"
RECURSIVE LazyCloseDotAll(_, _)
LazyCloseDotAll(text, p) ==
    IF p + 1 > Len(text) THEN 0
    ELSE IF text[p] = "*" /\ text[p + 1] = "*" THEN p
    ELSE LazyCloseDotAll(text, p + 1)

\* The lazy group (.*?) of section_pattern, tried from the shortest span on:
\* p is the candidate position of the closing "**"; "." does not match "\n".
\* Returns the position of the closing "**", 0 when the pattern fails.
RECURSIVE LazyClose(_, _)
LazyClose(text, p) ==
    IF p + 1 > Len(text) THEN 0
    ELSE IF text[p] = "*" /\ text[p + 1] = "*" THEN p
    ELSE IF text[p] = "\n" THEN 0
    ELSE LazyClose(text, p + 1)

\* re.match(r"^\*\*(.*?)\*\*\s*", text): position of the closing "**", 0 if no match
SectionMatch(text) ==
    IF StartsWith(text, << "*", "*" >>) THEN LazyClose(text, 3) ELSE 0

\* one loop body of CrumbParser.get_instructions; section_name None is << >>
CrumbNormalizeStep(step) ==
    LET step_text  == Get(step.step, << >>)
        is_section == Get(step.isSection, FALSE)
        close      == SectionMatch(step_text)
    IN  IF close # 0
        THEN [ text         |-> LStrip(SubSeq(step_text, close + 2, Len(step_text))),
               is_section   |-> TRUE,
               section_name |-> << SubSeq(step_text, 3, close - 1) >>,
               raw          |-> step ]
        ELSE [ text         |-> step_text,
               is_section   |-> is_section,
               section_name |-> << >>,
               raw          |-> step ]

CrumbGetInstructions(r) ==
    LET sorted_steps == SortedByOrder(Get(r.steps, << >>))
    IN  [ i \in 1..Len(sorted_steps) |-> CrumbNormalizeStep(sorted_steps[i]) ]

-----------------------------------------------------------------------------
(* PaprikaParser.get_instructions *)

UpperLetters == { Uppercase[i] : i \in 1..26 }
LowerLetters == { Lowercase[i] : i \in 1..26 }

\* s.isupper(): at least one cased character and no lower-case one
IsUpper(s) ==
    /\ \E i \in 1..Len(s) : s[i] \in UpperLetters
    /\ \A i \in 1..Len(s) : s[i] \notin LowerLetters

\* s.rstrip(':')
RECURSIVE RStripColon(_)
RStripColon(s) == IF s # << >> /\ s[Len(s)] = ":"
                  THEN RStripColon(SubSeq(s, 1, Len(s) - 1)) ELSE s

\* a loop body that takes only the lines ending with a colon for headers
PaprikaParseStepColonOnly(line) ==
    IF EndsWith(line, << ":" >>)
    THEN [ text |-> << >>, is_section |-> TRUE,
           section_name |-> << RStripColon(line) >>, raw |-> line ]
    ELSE [ text |-> line, is_section |-> FALSE, section_name |-> << >>, raw |-> line ]

\* one loop body of PaprikaParser.get_instructions
PaprikaParseStep(line) ==
    IF IsUpper(line) \/ EndsWith(line, << ":" >>)
    THEN [ text |-> << >>, is_section |-> TRUE,
           section_name |-> << RStripColon(line) >>, raw |-> line ]
    ELSE [ text |-> line, is_section |-> FALSE, section_name |-> << >>, raw |-> line ]

PaprikaGetInstructions(r) ==
    LET lines == NonBlankLines(Get(r.directions, << >>))
    IN  [ i \in 1..Len(lines) |-> PaprikaParseStep(lines[i]) ]

-----------------------------------------------------------------------------
(* format_instructions *)

Heading == << "#", "#", "#", " " >>
Marker == << "1", ".", " " >>

\* "if section_name:" is false for None and for the empty string
HasHeading(step) == step.section_name # << >> /\ step.section_name[1] # << >>

\* FormatStep that appends the heading after the list item
FormatStepHeadingAfter(step) ==
    << Marker \o step.text >>
        \o (IF HasHeading(step) THEN << Heading \o step.section_name[1] >> ELSE << >>)

\* the lines one step appends to formatted_steps
FormatStep(step) ==
    (IF HasHeading(step) THEN << Heading \o step.section_name[1] >> ELSE << >>)
        \o << Marker \o step.text >>

\* formatted_steps at the return of format_instructions
RECURSIVE FormattedSteps(_)
FormattedSteps(instructions) ==
    IF instructions = << >> THEN << >>
    ELSE FormattedSteps(SubSeq(instructions, 1, Len(instructions) - 1))
            \o FormatStep(instructions[Len(instructions)])

\* sep.join(parts)
RECURSIVE Join(_, _)
Join(parts, sep) ==
    IF parts = << >> THEN << >>
    ELSE IF Len(parts) = 1 THEN parts[1]
    ELSE parts[1] \o sep \o Join(Tail(parts), sep)

FormatInstructions(instructions) == Join(FormattedSteps(instructions), << "\n" >>)

-----------------------------------------------------------------------------
(* get_recipe_name, get_images *)

\* no placeholder: a recipe without a name key gets the empty name
NoPlaceholder == << >>

UnnamedRecipe == << "U", "n", "n", "a", "m", "e", "d", " ", "R", "e", "c", "i", "p", "e" >>

\* CrumbParser.get_recipe_name and PaprikaParser.get_recipe_name
GetRecipeName(r) == Get(r.name, UnnamedRecipe)

\* a substitution that replaces each run of other characters by one underscore
SanitizeRuns(name) ==
    LET keep == { i \in 1..Len(name) :
                    name[i] \in AlphaNum \/ i = 1 \/ name[i - 1] \in AlphaNum }
        idx  == [ k \in 1..Cardinality(keep) |->
                    CHOOSE i \in keep : Cardinality({ j \in keep : j <= i }) = k ]
    IN  [ k \in 1..Cardinality(keep) |->
            IF name[idx[k]] \in AlphaNum THEN name[idx[k]] ELSE "_" ]

\* re.sub(r"[^a-zA-Z0-9]", "_", name)
Sanitize(name) == [ i \in 1..Len(name) |-> IF name[i] \in AlphaNum THEN name[i] ELSE "_" ]

\* name.replace(' ', '_').replace('/', '_')
PaprikaSafeName(name) ==
    [ i \in 1..Len(name) |-> IF name[i] \in { " ", "/" } THEN "_" ELSE name[i] ]

Jpg == << ".", "j", "p", "g" >>

\* An image payload is kept abstract: tag identifies the text ("null" is JSON
\* null, "empty" the empty string), sentinel tells whether the text contains
\* "truncated for LLM context", b64ok whether base64.b64decode accepts it.
PayloadTruthy(p) == p.tag \notin { "null", "empty" }

\* CrumbKeepsImage without the test for the truncation sentinel
CrumbKeepsImageNoSentinel(image_data) == PayloadTruthy(image_data)

\* the test of crumb.py:133
CrumbKeepsImage(image_data) == PayloadTruthy(image_data) /\ ~ image_data.sentinel

\* enumerate() numbers the entries of the raw array from 0
CrumbGetImages(r) ==
    LET raw       == Get(r.images, << >>)
        safe_name == Sanitize(GetRecipeName(r))
        Ref(i)    == [ data     |-> raw[i],
                       filename |-> safe_name \o << "_" >> \o IntStr(i - 1) \o Jpg,
                       format   |-> "base64" ]
        kept      == SelectSeq([ i \in 1..Len(raw) |-> i ],
                               LAMBDA i : CrumbKeepsImage(raw[i]))
    IN  [ k \in 1..Len(kept) |-> Ref(kept[k]) ]

NullPayload == [ tag |-> "null", sentinel |-> FALSE, b64ok |-> FALSE ]
EmptyPayload == [ tag |-> "empty", sentinel |-> FALSE, b64ok |-> TRUE ]

\* a get_images that lists the URL whether or not there is photo data
PaprikaGetImagesBoth(r) ==
    LET safe_name  == PaprikaSafeName(GetRecipeName(r))
        photo_data == Get(r.photo_data, EmptyPayload)
        photo_url  == Get(r.photo, << >>)
    IN  (IF PayloadTruthy(photo_data)
         THEN << [ data |-> photo_data, filename |-> safe_name \o Jpg, format |-> "base64" ] >>
         ELSE << >>)
        \o
        (IF photo_url # << >>
         THEN << [ url |-> photo_url, filename |-> safe_name \o Jpg, format |-> "url" ] >>
         ELSE << >>)

PaprikaGetImages(r) ==
    LET safe_name  == PaprikaSafeName(GetRecipeName(r))
        photo_data == Get(r.photo_data, EmptyPayload)
        photo_url  == Get(r.photo, << >>)
    IN  (IF PayloadTruthy(photo_data)
         THEN << [ data |-> photo_data, filename |-> safe_name \o Jpg, format |-> "base64" ] >>
         ELSE << >>)
        \o
        (IF photo_url # << >> /\ ~ PayloadTruthy(photo_data)
         THEN << [ url |-> photo_url, filename |-> safe_name \o Jpg, format |-> "url" ] >>
         ELSE << >>)

-----------------------------------------------------------------------------
(* get_metadata *)

Minutes == << " ", "m", "i", "n", "u", "t", "e", "s" >>

CrumbGetMetadata(r) ==
    [ source_url     |-> Get(r.webLink, << >>),
      cook_time      |-> IntStr(Get(r.cookingDuration, 0)) \o Minutes,
      servings       |-> IF r.serves = << >> THEN StrVal(<< >>) ELSE Num(2 * r.serves[1]),
      notes          |-> Get(r.notes, << >>),
      nutrition_info |-> Get(r.neutritionalInfo, << >>),
      difficulty     |-> << >> ]

\* int(s) accepts a decimal literal with surrounding whitespace
IntOk(s) == IsDigit(Strip(s))

RECURSIVE IntVal(_)
IntVal(s) == IF s = << >> THEN 0
             ELSE 10 * IntVal(SubSeq(s, 1, Len(s) - 1))
                    + (CHOOSE d \in 0..9 : Digits[d + 1] = s[Len(s)])

\* value of the expression recipe_data.get(key, "0") or "0"
OrZero(opt) == IF Get(opt, << "0" >>) = << >> THEN << "0" >> ELSE Get(opt, << "0" >>)

\* paprika.py:292 calls .split on the categories value, paprika.py:296-297 call int()
PaprikaMetadataRaises(r) ==
    IF r.categories # << >> /\ r.categories[1].kind = "list" THEN "AttributeError"
    ELSE IF ~ IntOk(OrZero(r.prep_time)) \/ ~ IntOk(OrZero(r.cook_time)) THEN "ValueError"
    ELSE ""

PaprikaGetMetadata(r) ==
    LET cook_time == IntVal(Strip(OrZero(r.cook_time)))
    IN  [ source_url     |-> Get(r.source_url, << >>),
          cook_time      |-> IF cook_time # 0 THEN IntStr(cook_time) \o Minutes ELSE << >>,
          servings       |-> StrVal(Get(r.servings, << >>)),
          notes          |-> Get(r.notes, << >>),
          nutrition_info |-> Get(r.nutritional_info, << >>),
          difficulty     |-> Get(r.difficulty, << >>) ]

-----------------------------------------------------------------------------
(* Dispatch on parser_class *)

GetIngredients(r) ==
    IF r.variant = "crumb" THEN CrumbGetIngredients(r) ELSE PaprikaGetIngredients(r)

GetInstructions(r) ==
    IF r.variant = "crumb" THEN CrumbGetInstructions(r) ELSE PaprikaGetInstructions(r)

GetImages(r) ==
    IF r.variant = "crumb" THEN CrumbGetImages(r) ELSE PaprikaGetImages(r)

MetadataRaises(r) ==
    IF r.variant = "crumb" THEN "" ELSE PaprikaMetadataRaises(r)

GetMetadata(r) ==
    IF r.variant = "crumb" THEN CrumbGetMetadata(r) ELSE PaprikaGetMetadata(r)

-----------------------------------------------------------------------------
(* save_image *)

ImagesPrefix == << "i", "m", "a", "g", "e", "s", "/" >>

\* the bytes base64.b64decode returns for a payload it accepts
B64Decode(p) == << p.tag >>

\* fs with the file at path holding content
WriteFile(fs, path, content) ==
    [ q \in (DOMAIN fs) \cup { path } |-> IF q = path THEN content ELSE fs[q] ]

\* Outcomes of open(image_path, "wb") followed by f.write(image_bytes)
IOOutcomes == { "ok", "open_fails", "write_fails" }

\* SaveImage that returns the path although f.write raised
SaveImageReturnsPathOnFailure(image_data, fs, io) ==
    LET path == ImagesPrefix \o image_data.filename
    IN  IF image_data.format = "base64"
        THEN IF ~ image_data.data.b64ok
             THEN [ ret |-> << >>, fs |-> fs, decoded |-> { image_data.data },
                    opened |-> FALSE, written |-> FALSE, raised |-> TRUE ]
             ELSE IF io = "open_fails"
             THEN [ ret |-> << >>, fs |-> fs, decoded |-> { image_data.data },
                    opened |-> FALSE, written |-> FALSE, raised |-> TRUE ]
             ELSE IF io = "write_fails"
             THEN [ ret |-> path, fs |-> WriteFile(fs, path, << >>),
                    decoded |-> { image_data.data }, opened |-> TRUE, written |-> FALSE,
                    raised |-> TRUE ]
             ELSE [ ret |-> path, fs |-> WriteFile(fs, path, B64Decode(image_data.data)),
                    decoded |-> { image_data.data }, opened |-> TRUE, written |-> TRUE,
                    raised |-> FALSE ]
        ELSE [ ret |-> << >>, fs |-> fs, decoded |-> { }, opened |-> FALSE,
               written |-> FALSE, raised |-> FALSE ]

\* SaveImage that returns the path of a URL-format image
SaveImageListsUrl(image_data, fs, io) ==
    LET path == ImagesPrefix \o image_data.filename
    IN  IF image_data.format = "base64"
        THEN IF ~ image_data.data.b64ok
             THEN [ ret |-> << >>, fs |-> fs, decoded |-> { image_data.data },
                    opened |-> FALSE, written |-> FALSE, raised |-> TRUE ]
             ELSE IF io = "open_fails"
             THEN [ ret |-> << >>, fs |-> fs, decoded |-> { image_data.data },
                    opened |-> FALSE, written |-> FALSE, raised |-> TRUE ]
             ELSE IF io = "write_fails"
             THEN [ ret |-> << >>, fs |-> WriteFile(fs, path, << >>),
                    decoded |-> { image_data.data }, opened |-> TRUE, written |-> FALSE,
                    raised |-> TRUE ]
             ELSE [ ret |-> path, fs |-> WriteFile(fs, path, B64Decode(image_data.data)),
                    decoded |-> { image_data.data }, opened |-> TRUE, written |-> TRUE,
                    raised |-> FALSE ]
        ELSE [ ret |-> path, fs |-> fs, decoded |-> { }, opened |-> FALSE,
               written |-> FALSE, raised |-> FALSE ]

\* save_image(image_data, output_dir) on the output directory fs.  ret is the
\* returned string, decoded the payloads handed to b64decode, opened whether
\* the file was opened for writing, written whether f.write completed, raised
\* whether the except branch ran.
SaveImage(image_data, fs, io) ==
    LET path == ImagesPrefix \o image_data.filename
    IN  IF image_data.format = "base64"
        THEN IF ~ image_data.data.b64ok
             THEN [ ret |-> << >>, fs |-> fs, decoded |-> { image_data.data },
                    opened |-> FALSE, written |-> FALSE, raised |-> TRUE ]
             ELSE IF io = "open_fails"
             THEN [ ret |-> << >>, fs |-> fs, decoded |-> { image_data.data },
                    opened |-> FALSE, written |-> FALSE, raised |-> TRUE ]
             ELSE IF io = "write_fails"
             THEN [ ret |-> << >>, fs |-> WriteFile(fs, path, << >>),
                    decoded |-> { image_data.data }, opened |-> TRUE, written |-> FALSE,
                    raised |-> TRUE ]
             ELSE [ ret |-> path, fs |-> WriteFile(fs, path, B64Decode(image_data.data)),
                    decoded |-> { image_data.data }, opened |-> TRUE, written |-> TRUE,
                    raised |-> FALSE ]
        ELSE [ ret |-> << >>, fs |-> fs, decoded |-> { }, opened |-> FALSE,
               written |-> FALSE, raised |-> FALSE ]

-----------------------------------------------------------------------------
(* The parser registry, parsers/__init__.py *)

CrumbParser == "CrumbParser"
PaprikaParser == "PaprikaParser"

crumb == << "c", "r", "u", "m", "b" >>
paprikarecipe == << "p", "a", "p", "r", "i", "k", "a", "r", "e", "c", "i", "p", "e" >>
paprikarecipes == << "p", "a", "p", "r", "i", "k", "a", "r", "e", "c", "i", "p", "e", "s" >>

\* d.setdefault(key, value): a key that is there keeps its value
DictSetDefault(d, key, value) ==
    IF \E i \in 1..Len(d) : d[i].key = key
    THEN d
    ELSE Append(d, [ key |-> key, value |-> value ])

\* d[key] = value on a dict, which keeps its keys in insertion order
DictSet(d, key, value) ==
    IF \E i \in 1..Len(d) : d[i].key = key
    THEN [ i \in 1..Len(d) |-> IF d[i].key = key THEN [ key |-> key, value |-> value ]
                                                 ELSE d[i] ]
    ELSE Append(d, [ key |-> key, value |-> value ])

\* d.get(key)
DictGet(d, key) ==
    IF \E i \in 1..Len(d) : d[i].key = key
    THEN d[CHOOSE i \in 1..Len(d) : d[i].key = key].value
    ELSE "None"

\* list(d.keys())
DictKeys(d) == [ i \in 1..Len(d) |-> d[i].key ]

\* a registry key that keeps the case the caller wrote
RegistryKeyAsWritten(ext) == ext

\* the key under which register_parser files an extension
RegistryKey(ext) == Lower(ext)

RECURSIVE Registered(_, _, _)
\* the registry d after register_parser(exts, parser)
Registered(d, exts, parser) ==
    IF exts = << >> THEN d
    ELSE Registered(DictSet(d, RegistryKey(Head(exts)), parser), Tail(exts), parser)

GetParserForExtension(d, extension) == DictGet(d, Lower(extension))

GetSupportedExtensions(d) == DictKeys(d)

\* the registry once "import cookdown.parsers" has run: the package imports
\* the crumb module only, whose last line registers CrumbParser
ImportedParsers == Registered(<< >>, << crumb >>, CrumbParser)

\* the registry once a caller has also imported cookdown.parsers.paprika
ImportedPaprika == Registered(ImportedParsers, << paprikarecipe, paprikarecipes >>, PaprikaParser)

register_parser(exts, parser) ==
    /\ PARSERS' = Registered(PARSERS, exts, parser)
    /\ calls' = Append(calls, [ extensions |-> exts, parser_class |-> parser ])
    /\ UNCHANGED << recipe, pc, recipe_name, normalized_ingredients, normalized_instructions,
                    image_data_list, metadata, ingredients_list, directions, image_paths,
                    img_idx, files, decoded, opened, saved, failed, formatted_steps,
                    images_dir, exc, message, source, parser_class, temp_dirs, lookup,
                    batch_vars >>

get_parser_for_extension(extension) ==
    /\ lookup' = [ extension |-> extension,
                   parser_class |-> GetParserForExtension(PARSERS, extension),
                   after |-> Len(calls) ]
    /\ UNCHANGED << recipe, pc, recipe_name, normalized_ingredients, normalized_instructions,
                    image_data_list, metadata, ingredients_list, directions, image_paths,
                    img_idx, files, decoded, opened, saved, failed, formatted_steps,
                    images_dir, exc, message, source, parser_class, temp_dirs, PARSERS,
                    calls, batch_vars >>

-----------------------------------------------------------------------------
(* parse_file *)

\* position of the dot that starts the extension of a file name, 0 if none:
\* the last dot that is preceded by a character other than a dot
ExtensionDot(path) ==
    LET dots == { i \in 1..Len(path) :
                    path[i] = "." /\ \E j \in 1..(i - 1) : path[j] # "." }
    IN  IF dots = { } THEN 0 ELSE CHOOSE i \in dots : \A j \in dots : j <= i

\* RecipeParser.get_file_extension: os.path.splitext(filepath)[1][1:]
GetFileExtension(path) ==
    IF ExtensionDot(path) = 0 THEN << >>
    ELSE SubSeq(path, ExtensionDot(path) + 1, Len(path))

\* what parse_file hands back when it falls off its last branch
NoneRecipe == [ variant |-> "None" ]

Returned(r) == [ raised |-> "", message |-> << >>, ret |-> r, leaked |-> 0 ]
\* a failure that is swallowed: an empty mapping is handed back instead
ReturnedEmpty(kind, text, leaked) ==
    [ raised |-> "", message |-> << >>, ret |-> [ variant |-> "paprika" ], leaked |-> leaked ]

Raised(kind, text, leaked) ==
    [ raised |-> kind, message |-> text, ret |-> NoneRecipe, leaked |-> leaked ]

\* CrumbParser.parse_file: json.loads of the file's text
CrumbParseFile(file) ==
    IF file.content.kind = "json" THEN Returned(file.content.recipe)
    ELSE Raised("JSONDecodeError", << "E", "x", "p", "e", "c", "t", "i", "n", "g", " ", "v", "a", "l", "u", "e" >>, 0)

\* PaprikaParser._extract_paprikarecipe on a file of the given content
ExtractPaprikarecipe(path, content, leaked) ==
    IF content.kind = "gzip"
    THEN [ Returned(content.recipe) EXCEPT !.leaked = leaked ]
    ELSE Raised("ValueError",
                << "F", "a", "i", "l", "e", "d", " ", "t", "o", " ", "e", "x", "t", "r", "a", "c", "t", " " >> \o path \o << ":", " ", "N", "o", "t", " ", "a", " ", "g", "z", "i", "p", "p", "e", "d", " ", "f", "i", "l", "e" >>, leaked)

PaprikarecipeSuffix == << ".", "p", "a", "p", "r", "i", "k", "a", "r", "e", "c", "i", "p", "e" >>

\* the entries _extract_paprikarecipes_archive extracts, in listing order
ArchiveRecipeFiles(entries) ==
    SelectSeq(entries, LAMBDA e : EndsWith(e.name, PaprikarecipeSuffix))

\* the files Path(recipes_dir).glob("*.paprikarecipe") finds: the extracted
\* files that lie directly in the temporary directory and are not hidden
GlobRecipeFiles(entries) ==
    { e.name : e \in { x \in Range(ArchiveRecipeFiles(entries)) :
                         "/" \notin Range(x.name) /\ x.name[1] # "." } }

\* the content of the extracted file of that name: a later entry of the same
\* name overwrites an earlier one
ExtractedContent(entries, name) ==
    LET hits == { i \in 1..Len(entries) : entries[i].name = name }
    IN  entries[CHOOSE i \in hits : \A j \in hits : j <= i].content

\* the files that recipe_files[0] of paprika.py:65 can be: glob yields the
\* directory's entries in the order the file system lists them
FirstGlobbed(file) ==
    IF file.content.kind = "zip" /\ GlobRecipeFiles(file.content.entries) # { }
    THEN GlobRecipeFiles(file.content.entries)
    ELSE { << >> }

\* PaprikaParser.parse_file; first is the file glob lists first, leaked the
\* number of temporary directories left behind
PaprikaParseFile(file, first) ==
    LET ext == GetFileExtension(file.path)
    IN  IF ext = paprikarecipe
        THEN ExtractPaprikarecipe(file.path, file.content, 0)
        ELSE IF ext = paprikarecipes
        THEN IF file.content.kind # "zip"
             THEN Raised("ValueError",
                         << "F", "a", "i", "l", "e", "d", " ", "t", "o", " ", "e", "x", "t", "r", "a", "c", "t", " ", "a", "r", "c", "h", "i", "v", "e", " " >> \o file.path
                             \o << ":", " ", "F", "i", "l", "e", " ", "i", "s", " ", "n", "o", "t", " ", "a", " ", "z", "i", "p", " ", "f", "i", "l", "e" >>, 0)
             ELSE IF GlobRecipeFiles(file.content.entries) = { }
             THEN Raised("ValueError",
                         << "N", "o", " ", "r", "e", "c", "i", "p", "e", " ", "f", "i", "l", "e", "s", " ", "f", "o", "u", "n", "d", " ", "i", "n", " ", "a", "r", "c", "h", "i", "v", "e", ":", " " >> \o file.path, 1)
             ELSE LET r == ExtractPaprikarecipe(first,
                                 ExtractedContent(file.content.entries, first), 1)
                  IN  IF r.raised = "" THEN [ r EXCEPT !.leaked = 0 ] ELSE r
        ELSE Returned(NoneRecipe)

ParseFileOf(parser, file, first) ==
    IF parser = CrumbParser THEN CrumbParseFile(file) ELSE PaprikaParseFile(file, first)

NoParserFound == << "N", "o", " ", "p", "a", "r", "s", "e", "r", " ", "f", "o", "u", "n", "d", " ", "f", "o", "r", " ", "f", "i", "l", "e", " ", "e", "x", "t", "e", "n", "s", "i", "o", "n", ":", " " >>

\* str(e) of the exceptions raised while extracting and formatting
ErrorText(kind) ==
    CASE kind = "TypeError" -> << "'", ">", "'", " ", "n", "o", "t", " ", "s", "u", "p", "p", "o", "r", "t", "e", "d", " ", "b", "e", "t", "w", "e", "e", "n", " ", "i", "n", "s", "t", "a", "n", "c", "e", "s", " ", "o", "f", " ", "'", "s", "t", "r", "'", " ", "a", "n", "d", " ", "'", "i", "n", "t", "'" >>
      [] kind = "AttributeError" -> << "'", "l", "i", "s", "t", "'", " ", "o", "b", "j", "e", "c", "t", " ", "h", "a", "s", " ", "n", "o", " ", "a", "t", "t", "r", "i", "b", "u", "t", "e", " ", "'", "s", "p", "l", "i", "t", "'" >>
      [] kind = "ValueError" -> << "i", "n", "v", "a", "l", "i", "d", " ", "l", "i", "t", "e", "r", "a", "l", " ", "f", "o", "r", " ", "i", "n", "t", "(", ")", " ", "w", "i", "t", "h", " ", "b", "a", "s", "e", " ", "1", "0" >>
      [] kind = "NoneType" -> << "'", "N", "o", "n", "e", "T", "y", "p", "e", "'", " ", "o", "b", "j", "e", "c", "t", " ", "h", "a", "s", " ", "n", "o", " ", "a", "t", "t", "r", "i", "b", "u", "t", "e", " ", "'", "g", "e", "t", "'" >>

-----------------------------------------------------------------------------
(* convert_to_markdown *)

Today == << "2", "0", "2", "5", "-", "0", "3", "-", "0", "1" >>

\* the frontmatter dict of formatter.py:169-181, in insertion order
Frontmatter(md, photos, ingredients) ==
    << [ key |-> << "f", "o", "o", "d", "-", "l", "a", "b", "e", "l", "s" >>, list |-> FALSE, value |-> << >> ],
       [ key |-> << "c", "r", "e", "a", "t", "e", "d" >>, list |-> FALSE, value |-> Today ],
       [ key |-> << "u", "p", "d", "a", "t", "e", "d" >>, list |-> FALSE, value |-> Today ],
       [ key |-> << "t", "a", "g", "s" >>, list |-> TRUE, value |-> << << "f", "o", "o", "d", "/", "r", "e", "c", "i", "p", "e" >> >> ],
       [ key |-> << "p", "h", "o", "t", "o", "s" >>, list |-> TRUE, value |-> photos ],
       [ key |-> << "s", "o", "u", "r", "c", "e" >>, list |-> FALSE, value |-> << >> ],
       [ key |-> << "s", "o", "u", "r", "c", "e", "-", "u", "r", "l" >>, list |-> FALSE, value |-> md.source_url ],
       [ key |-> << "c", "o", "o", "k", "-", "t", "i", "m", "e" >>, list |-> FALSE, value |-> md.cook_time ],
       [ key |-> << "d", "i", "f", "f", "i", "c", "u", "l", "t", "y" >>, list |-> FALSE, value |-> md.difficulty ],
       [ key |-> << "s", "e", "r", "v", "i", "n", "g", "s" >>, list |-> FALSE, value |-> Fmt(md.servings) ],
       [ key |-> << "i", "n", "g", "r", "e", "d", "i", "e", "n", "t", "s" >>, list |-> TRUE, value |-> ingredients ] >>

Fence == << "-", "-", "-" >>
ListItem == << " ", " ", "-", " " >>

\* the lines one frontmatter entry appends to yaml_lines
YamlEntry(e) ==
    IF e.list
    THEN << e.key \o << ":" >> >> \o [ i \in 1..Len(e.value) |-> ListItem \o e.value[i] ]
    ELSE << e.key \o << ":", " " >> \o e.value >>

RECURSIVE YamlEntries(_)
YamlEntries(fm) ==
    IF fm = << >> THEN << >>
    ELSE YamlEntries(SubSeq(fm, 1, Len(fm) - 1)) \o YamlEntry(fm[Len(fm)])

YamlLines(fm) == << Fence >> \o YamlEntries(fm) \o << Fence >>

\* md_content of formatter.py:195-203
MdContent(name, md, photos, ingredients, dirs) ==
    YamlLines(Frontmatter(md, photos, ingredients))
        \o << << "\n", "#", " " >> \o name,
              << "\n", "#", "#", " ", "D", "i", "r", "e", "c", "t", "i", "o", "n", "s" >>,
              dirs,
              << "\n", "#", "#", " ", "N", "o", "t", "e", "s" >>,
              md.notes,
              << "\n", "#", "#", " ", "N", "u", "t", "r", "i", "t", "i", "o", "n", " ", "I", "n", "f", "o" >>,
              md.nutrition_info >>

MdSuffix == << ".", "m", "d" >>

\* output_path relative to output_dir
OutputPath(name) == Sanitize(name) \o MdSuffix

\* formatter.py:127-141: the parser is looked up when the caller passed none,
\* then parse_file runs
ParseFile ==
    /\ pc = "start"
    /\ LET ext == GetFileExtension(source.path)
           cls == IF parser_class = "None" THEN GetParserForExtension(PARSERS, ext)
                                          ELSE parser_class
       IN  /\ parser_class' = cls
           /\ IF cls = "None"
              THEN /\ exc' = "ValueError"
                   /\ message' = NoParserFound \o ext
                   /\ pc' = "raised"
                   /\ UNCHANGED << recipe, temp_dirs >>
              ELSE \E first \in FirstGlobbed(source) :
                     LET r == ParseFileOf(cls, source, first)
                     IN  /\ temp_dirs' = temp_dirs + r.leaked
                         /\ IF r.raised # ""
                            THEN /\ exc' = r.raised
                                 /\ message' = r.message
                                 /\ pc' = "raised"
                                 /\ UNCHANGED recipe
                            ELSE /\ recipe' = r.ret
                                 /\ pc' = "parsed"
                                 /\ UNCHANGED << exc, message >>
    /\ UNCHANGED << recipe_name, normalized_ingredients, normalized_instructions,
                    image_data_list, metadata, ingredients_list, directions, image_paths,
                    img_idx, files, decoded, opened, saved, failed, formatted_steps,
                    images_dir, source, PARSERS, calls, lookup, batch_vars >>

\* formatter.py:144-148
Extract ==
    /\ pc = "parsed"
    /\ IF recipe = NoneRecipe
       THEN /\ exc' = "AttributeError"
            /\ message' = ErrorText("NoneType")
            /\ pc' = "raised"
            /\ UNCHANGED << recipe_name, normalized_ingredients, normalized_instructions,
                            image_data_list, metadata >>
       ELSE /\ recipe_name' = GetRecipeName(recipe)
            /\ normalized_ingredients' = GetIngredients(recipe)
            /\ normalized_instructions' = GetInstructions(recipe)
            /\ image_data_list' = GetImages(recipe)
            /\ IF MetadataRaises(recipe) # ""
               THEN /\ exc' = MetadataRaises(recipe)
                    /\ message' = ErrorText(MetadataRaises(recipe))
                    /\ pc' = "raised"
                    /\ UNCHANGED metadata
               ELSE /\ metadata' = GetMetadata(recipe)
                    /\ pc' = "extracted"
                    /\ UNCHANGED << exc, message >>
    /\ UNCHANGED << recipe, ingredients_list, directions, image_paths, img_idx, files,
                    decoded, opened, saved, failed, formatted_steps, images_dir >>
    /\ UNCHANGED other_vars

\* formatter.py:150-162
Format ==
    /\ pc = "extracted"
    /\ IF FormatIngredients(normalized_ingredients).ok
       THEN /\ ingredients_list' = FormatIngredients(normalized_ingredients).val
            /\ formatted_steps' = FormattedSteps(normalized_instructions)
            /\ directions' = FormatInstructions(normalized_instructions)
            /\ image_paths' = << >>
            /\ img_idx' = 1
            /\ pc' = "images"
            /\ UNCHANGED << exc, message >>
       ELSE /\ exc' = "TypeError"
            /\ message' = ErrorText("TypeError")
            /\ pc' = "raised"
            /\ UNCHANGED << ingredients_list, formatted_steps, directions, image_paths, img_idx >>
    /\ UNCHANGED << recipe, recipe_name, normalized_ingredients, normalized_instructions,
                    image_data_list, metadata, files, decoded, opened, saved, failed,
                    images_dir >>
    /\ UNCHANGED other_vars

\* one iteration of the loop of formatter.py:163-166
ProcessImage ==
    /\ pc = "images"
    /\ img_idx <= Len(image_data_list)
    /\ \E io \in IOOutcomes :
         LET image_data == image_data_list[img_idx]
             r == SaveImage(image_data, files, io)
             path == ImagesPrefix \o image_data.filename
         IN  /\ images_dir' = TRUE
             /\ files' = r.fs
             /\ decoded' = decoded \cup r.decoded
             /\ opened' = IF r.opened THEN opened \cup { path } ELSE opened
             /\ saved' = IF r.written THEN Append(saved, path) ELSE saved
             /\ failed' = IF r.raised THEN failed \cup { path } ELSE failed
             /\ image_paths' = IF r.ret # << >> THEN Append(image_paths, r.ret) ELSE image_paths
    /\ img_idx' = img_idx + 1
    /\ UNCHANGED << recipe, pc, recipe_name, normalized_ingredients, normalized_instructions,
                    image_data_list, metadata, ingredients_list, directions,
                    formatted_steps, exc, message >>
    /\ UNCHANGED other_vars

\* formatter.py:168-210
WriteMarkdown ==
    /\ pc = "images"
    /\ img_idx > Len(image_data_list)
    /\ files' = WriteFile(files, OutputPath(recipe_name),
                          Join(MdContent(recipe_name, metadata, image_paths,
                                         ingredients_list, directions), << "\n" >>))
    /\ opened' = opened \cup { OutputPath(recipe_name) }
    /\ pc' = "done"
    /\ UNCHANGED << recipe, recipe_name, normalized_ingredients, normalized_instructions,
                    image_data_list, metadata, ingredients_list, directions, image_paths,
                    img_idx, decoded, saved, failed, formatted_steps, images_dir, exc,
                    message >>
    /\ UNCHANGED other_vars

Next == Extract \/ Format \/ ProcessImage \/ WriteMarkdown

\* the file parse_file read the mapping r from
SourceOf(r) ==
    IF r.variant = "crumb"
    THEN [ path |-> << "a", "." >> \o crumb, content |-> [ kind |-> "json", recipe |-> r ] ]
    ELSE [ path |-> << "a", "." >> \o paprikarecipe,
           content |-> [ kind |-> "gzip", recipe |-> r ] ]

\* the parser class of a parsed mapping
ParserOf(r) == IF r.variant = "crumb" THEN CrumbParser ELSE PaprikaParser

\* the registry calls made while the registry d was built by imports
ImportCalls(d) ==
    IF d = ImportedParsers
    THEN << [ extensions |-> << crumb >>, parser_class |-> CrumbParser ] >>
    ELSE << [ extensions |-> << crumb >>, parser_class |-> CrumbParser ],
            [ extensions |-> << paprikarecipe, paprikarecipes >>,
              parser_class |-> PaprikaParser ] >>

NoLookup == [ extension |-> << >>, parser_class |-> "None", after |-> 0 ]

\* batch_convert has not been called
NoBatch ==
    /\ input_dir = { }
    /\ extensions = "None"
    /\ max_workers = 4
    /\ batch_pc = "idle"
    /\ recipe_files = << >>
    /\ futures = << >>
    /\ results = << >>
    /\ successful_conversions = 0
    /\ failed_conversions = 0
    /\ conversions = << >>
    /\ write_log = << >>

\* no conversion has run yet: the output directory is fs, the registry is d
Fresh(at, file, parser, fs, d) ==
    /\ recipe = NoneRecipe
    /\ pc = at
    /\ recipe_name = << >>
    /\ normalized_ingredients = << >>
    /\ normalized_instructions = << >>
    /\ image_data_list = << >>
    /\ metadata = << >>
    /\ ingredients_list = << >>
    /\ directions = << >>
    /\ image_paths = << >>
    /\ img_idx = 0
    /\ files = fs
    /\ decoded = { }
    /\ opened = { }
    /\ saved = << >>
    /\ failed = { }
    /\ formatted_steps = << >>
    /\ images_dir = FALSE
    /\ exc = ""
    /\ message = << >>
    /\ source = file
    /\ parser_class = parser
    /\ temp_dirs = 0
    /\ PARSERS = d
    /\ calls = ImportCalls(d)
    /\ lookup = NoLookup

\* the state in which convert_to_markdown(file, output_dir, parser) is called
\* on the output directory fs with the registry d
Call(file, parser, fs, d) == Fresh("start", file, parser, fs, d) /\ NoBatch

\* the state in which parse_file has returned the mapping r
Start(r) ==
    /\ recipe = r
    /\ pc = "parsed"
    /\ message = << >>
    /\ source = SourceOf(r)
    /\ parser_class = ParserOf(r)
    /\ temp_dirs = 0
    /\ PARSERS = ImportedPaprika
    /\ calls = ImportCalls(ImportedPaprika)
    /\ lookup = NoLookup
    /\ NoBatch
    /\ recipe_name = << >>
    /\ normalized_ingredients = << >>
    /\ normalized_instructions = << >>
    /\ image_data_list = << >>
    /\ metadata = << >>
    /\ ingredients_list = << >>
    /\ directions = << >>
    /\ image_paths = << >>
    /\ img_idx = 0
    /\ files = << >>
    /\ decoded = { }
    /\ opened = { }
    /\ saved = << >>
    /\ failed = { }
    /\ formatted_steps = << >>
    /\ images_dir = FALSE
    /\ exc = ""

-----------------------------------------------------------------------------
(* convert_file and batch_convert, batch.py *)

RECURSIVE SavedImages(_, _, _)
\* the loop of formatter.py:163-166 run to its end
SavedImages(images, fs, io) ==
    IF images = << >> THEN [ fs |-> fs, image_paths |-> << >> ]
    ELSE LET before == SavedImages(SubSeq(images, 1, Len(images) - 1), fs, io)
             r      == SaveImage(images[Len(images)], before.fs, io)
         IN  [ fs |-> r.fs,
               image_paths |-> IF r.ret # << >> THEN Append(before.image_paths, r.ret)
                                                ELSE before.image_paths ]

Raises(text, fs, leaked) == [ raised |-> TRUE, text |-> text, fs |-> fs, leaked |-> leaked ]

\* convert_to_markdown(file, output_dir, parser) from its call to its return
\* or raise, on the output directory fs
ConvertToMarkdown(file, parser, fs, first, io) ==
    LET p == ParseFileOf(parser, file, first)
        r == p.ret
    IN  IF p.raised # "" THEN Raises(p.message, fs, p.leaked)
        ELSE IF r = NoneRecipe THEN Raises(ErrorText("NoneType"), fs, 0)
        ELSE IF MetadataRaises(r) # "" THEN Raises(ErrorText(MetadataRaises(r)), fs, 0)
        ELSE IF ~ FormatIngredients(GetIngredients(r)).ok
        THEN Raises(ErrorText("TypeError"), fs, 0)
        ELSE LET images == SavedImages(GetImages(r), fs, io)
                 name   == GetRecipeName(r)
                 text   == Join(MdContent(name, GetMetadata(r), images.image_paths,
                                          FormatIngredients(GetIngredients(r)).val,
                                          FormatInstructions(GetInstructions(r))),
                                << "\n" >>)
             IN  [ raised |-> FALSE, text |-> OutputPath(name),
                   fs |-> WriteFile(images.fs, OutputPath(name), text), leaked |-> 0 ]

NoParserFoundFor == << "N", "o", " ", "p", "a", "r", "s", "e", "r", " ", "f", "o", "u", "n", "d", " ", "f", "o", "r", " ", "e", "x", "t", "e", "n", "s", "i", "o", "n", ":", " " >>
ConvertedTo == << "C", "o", "n", "v", "e", "r", "t", "e", "d", " ", "t", "o", " " >>

\* a convert_file that reports a raising conversion as converted
ConvertFileHidesFailure(file, fs, d, first, io) ==
    LET extension == Lower(GetFileExtension(file.path))
        parser    == GetParserForExtension(d, extension)
        c         == ConvertToMarkdown(file, parser, fs, first, io)
    IN  IF parser = "None"
        THEN [ success |-> FALSE, file |-> file.path,
               output |-> NoParserFoundFor \o extension, fs |-> fs, leaked |-> 0 ]
        ELSE [ success |-> TRUE, file |-> file.path, output |-> ConvertedTo \o c.text,
               fs |-> c.fs, leaked |-> c.leaked ]

\* convert_file(recipe_file, output_dir), batch.py:105-131
ConvertFile(file, fs, d, first, io) ==
    LET extension == Lower(GetFileExtension(file.path))
        parser    == GetParserForExtension(d, extension)
        c         == ConvertToMarkdown(file, parser, fs, first, io)
    IN  IF parser = "None"
        THEN [ success |-> FALSE, file |-> file.path,
               output |-> NoParserFoundFor \o extension, fs |-> fs, leaked |-> 0 ]
        ELSE IF c.raised
        THEN [ success |-> FALSE, file |-> file.path, output |-> c.text, fs |-> fs,
               leaked |-> c.leaked ]
        ELSE [ success |-> TRUE, file |-> file.path, output |-> ConvertedTo \o c.text,
               fs |-> c.fs, leaked |-> c.leaked ]

\* glob.glob(os.path.join(input_dir, "*.<ext>"))
Globbed(dir, ext) ==
    { f \in dir : EndsWith(f.path, << "." >> \o ext) /\ Len(f.path) > Len(ext) + 1
                  /\ f.path[1] # "." }

\* the orders in which glob can list a set of files
Orderings(S) ==
    { s \in [ 1..Cardinality(S) -> S ] :
        \A i, j \in 1..Cardinality(S) : i # j => s[i] # s[j] }

RECURSIVE FindRecipeFiles(_, _)
\* the lists find_recipe_files(input_dir, False, exts) can return
FindRecipeFiles(dir, exts) ==
    IF exts = << >> THEN { << >> }
    ELSE { a \o b : a \in FindRecipeFiles(dir, SubSeq(exts, 1, Len(exts) - 1)),
                    b \in Orderings(Globbed(dir, exts[Len(exts)])) }

Running == { i \in 1..Len(futures) : futures[i].state = "running" }
Pending == { i \in 1..Len(futures) : futures[i].state = "pending" }

\* batch.py:158-204: the files are found and every convert_file call is submitted
Discover ==
    /\ batch_pc = "called"
    /\ \E found \in FindRecipeFiles(input_dir,
                       IF extensions = "None" THEN GetSupportedExtensions(PARSERS)
                                              ELSE extensions) :
         /\ recipe_files' = found
         /\ futures' = [ i \in 1..Len(found) |-> [ state |-> "pending" ] ]
         /\ batch_pc' = IF found = << >> THEN "returned" ELSE "collecting"
    /\ UNCHANGED << recipe, pc, recipe_name, normalized_ingredients, normalized_instructions,
                    image_data_list, metadata, ingredients_list, directions, image_paths,
                    img_idx, files, decoded, opened, saved, failed, formatted_steps,
                    images_dir, exc, message, source, parser_class, temp_dirs, PARSERS,
                    calls, lookup, input_dir, extensions, max_workers, results,
                    successful_conversions, failed_conversions,
                    conversions, write_log >>

\* a pool that runs one call at a time, whatever its size
PoolHasNoBusyThread == Running = { }

\* ThreadPoolExecutor(max_workers): fewer calls are running than the pool
\* has threads
PoolHasIdleThread == Cardinality(Running) < max_workers

\* a free worker thread of the pool takes the oldest submitted call
WorkerStart ==
    /\ batch_pc = "collecting"
    /\ Pending # { }
    /\ PoolHasIdleThread
    /\ LET i == CHOOSE p \in Pending : \A q \in Pending : p <= q
       IN  futures' = [ futures EXCEPT ![i] = [ state |-> "running" ] ]
    /\ UNCHANGED << recipe, pc, recipe_name, normalized_ingredients, normalized_instructions,
                    image_data_list, metadata, ingredients_list, directions, image_paths,
                    img_idx, files, decoded, opened, saved, failed, formatted_steps,
                    images_dir, exc, message, source, parser_class, temp_dirs, PARSERS,
                    calls, lookup, input_dir, extensions, max_workers, batch_pc,
                    recipe_files, results, successful_conversions, failed_conversions,
                    conversions, write_log >>

\* the convert_file call of the i-th file runs and returns
WorkerFinish(i) ==
    /\ i \in Running
    /\ ~ recipe_files[i].hangs
    /\ \E first \in FirstGlobbed(recipe_files[i]) : \E io \in IOOutcomes :
         LET r == ConvertFile(recipe_files[i], files, PARSERS, first, io)
         IN  /\ futures' = [ futures EXCEPT ![i] =
                               [ state |-> "done",
                                 result |-> [ success |-> r.success, file |-> r.file,
                                              output |-> r.output ] ] ]
             /\ files' = r.fs
             /\ temp_dirs' = temp_dirs + r.leaked
    /\ UNCHANGED << recipe, pc, recipe_name, normalized_ingredients, normalized_instructions,
                    image_data_list, metadata, ingredients_list, directions, image_paths,
                    img_idx, decoded, opened, saved, failed, formatted_steps,
                    images_dir, exc, message, source, parser_class, PARSERS,
                    calls, lookup, input_dir, extensions, max_workers, batch_pc,
                    recipe_files, results, successful_conversions, failed_conversions,
                    conversions, write_log >>

\* batch.py:207-238: as_completed yields the finished call of the i-th file
Collect(i) ==
    /\ batch_pc = "collecting"
    /\ i \in 1..Len(futures)
    /\ futures[i].state = "done"
    /\ results' = Append(results, futures[i].result)
    /\ IF futures[i].result.success
       THEN /\ successful_conversions' = successful_conversions + 1
            /\ UNCHANGED failed_conversions
       ELSE /\ failed_conversions' = failed_conversions + 1
            /\ UNCHANGED successful_conversions
    /\ futures' = [ futures EXCEPT ![i].state = "collected" ]
    /\ UNCHANGED << recipe, pc, recipe_name, normalized_ingredients, normalized_instructions,
                    image_data_list, metadata, ingredients_list, directions, image_paths,
                    img_idx, files, decoded, opened, saved, failed, formatted_steps,
                    images_dir, exc, message, source, parser_class, temp_dirs, PARSERS,
                    calls, lookup, input_dir, extensions, max_workers, batch_pc,
                    recipe_files,
                    conversions, write_log >>

\* batch.py:240-265: every call was collected, the pool shuts down and
\* batch_convert returns results
Return ==
    /\ batch_pc = "collecting"
    /\ \A i \in 1..Len(futures) : futures[i].state = "collected"
    /\ batch_pc' = "returned"
    /\ UNCHANGED << recipe, pc, recipe_name, normalized_ingredients, normalized_instructions,
                    image_data_list, metadata, ingredients_list, directions, image_paths,
                    img_idx, files, decoded, opened, saved, failed, formatted_steps,
                    images_dir, exc, message, source, parser_class, temp_dirs, PARSERS,
                    calls, lookup, input_dir, extensions, max_workers, recipe_files,
                    futures, results, successful_conversions, failed_conversions,
                    conversions, write_log >>

-----------------------------------------------------------------------------
(* Explored inputs: raw recipe mappings as parse_file returns them *)

SampleName == << "T", " ", "r" >>

CrumbBase ==
    [ variant |-> "crumb", name |-> << SampleName >>, ingredients |-> << >>,
      steps |-> << >>, images |-> << >>, webLink |-> << >>, cookingDuration |-> << >>,
      serves |-> << >>, notes |-> << >>, neutritionalInfo |-> << >> ]

PaprikaBase ==
    [ variant |-> "paprika", name |-> << SampleName >>, ingredients |-> << >>,
      directions |-> << >>, photo_data |-> << >>, photo |-> << >>, categories |-> << >>,
      prep_time |-> << >>, cook_time |-> << >>, source_url |-> << >>, servings |-> << >>,
      notes |-> << >>, nutritional_info |-> << >>, difficulty |-> << >> ]

GoodPayload == [ tag |-> "img1", sentinel |-> FALSE, b64ok |-> TRUE ]

Ingredient(order, name, quantity) ==
    [ order |-> order, ingredient |-> << [ name |-> << name >> ] >>, quantity |-> quantity ]

Quantity(halves, unit) == << [ amount |-> << halves >>, quantityType |-> << unit >> ] >>

cup == << "c", "u", "p" >>

\* entries that differ in order and name, and entries that differ in quantity
RawIngredients ==
    { Ingredient(o, n, Quantity(2, cup)) : o \in { << >>, << 1 >> },
                                           n \in { << "f" >>, << "g" >> } }
    \cup
    { Ingredient(<< >>, << "f" >>, q) :
        q \in { << >>,
                << [ amount |-> << >>, quantityType |-> << cup >> ] >>,
                << [ amount |-> << 4 >>, quantityType |-> << >> ] >>,
                Quantity(0, cup), Quantity(1, cup), Quantity(3, cup),
                Quantity(2, << "C", "u", "p" >>), Quantity(4, << "C", "u", "p" >>),
                Quantity(4, pound), Quantity(4, << "P", "o", "u", "n", "d" >>),
                Quantity(4, << "c", "u", "p", "s" >>) } }
    \cup
    { [ order |-> << 0 >>, ingredient |-> << >>, quantity |-> << >> ] }

BadPayload == [ tag |-> "img2", sentinel |-> FALSE, b64ok |-> FALSE ]

PlainStep == [ order |-> << >>, step |-> << << "m", "i", "x" >> >>, isSection |-> << >> ]

IngredientLines ==
    { << "2", " ", "c", "u", "p", " ", "f" >>, << "1", " ", "c", "u", "p", " ", "f" >>, << "1", ".", "5", " ", "C", "u", "p", " ", "f" >>, << "1", " ", "g" >>, << "f" >>, << "2", " ", " ", "f" >>, << " ", "x", " ", "c", "u", "p", " ", "f", " " >> }

MetadataTimes == { << >>, << << "3", "0" >> >>, << << "3", "0", " ", "m" >> >> }

\* recipes that vary the ingredients
IngredientRecipes ==
    { [ CrumbBase EXCEPT !.ingredients = << l >>, !.steps = << << PlainStep >> >>,
                         !.images = << << GoodPayload >> >> ] :
        l \in SeqsUpTo(RawIngredients, MaxIngredients) }
    \cup { [ CrumbBase EXCEPT !.images = << << BadPayload >> >> ] }

PaprikaIngredientRecipes ==
    { [ PaprikaBase EXCEPT !.ingredients = << Join(l, << "\n" >>) >>,
                           !.photo_data = << BadPayload >>,
                           !.cook_time = t ] :
        l \in SeqsUpTo(IngredientLines, MaxIngredients), t \in MetadataTimes }

InitIngredients ==
    \/ \E r \in IngredientRecipes : Start(r)
    \/ \E r \in PaprikaIngredientRecipes : Start(r)

SpecIngredients == InitIngredients /\ [][Next]_vars

-----------------------------------------------------------------------------
(* Claims about the ingredients *)

Formatted == pc \in { "images", "done" }

Bijections(n) == { f \in [1..n -> 1..n] : \A i, j \in 1..n : i # j => f[i] # f[j] }

\* C1: CrumbParser.get_ingredients returns the raw entries sorted ascending by
\* order (0 when absent), entries of equal order keep their relative position,
\* the result is a permutation of the input, and format_ingredients emits one
\* string per entry in that same order.
C1_SortedStablePermutation ==
    (recipe.variant = "crumb" /\ pc # "parsed") =>
        LET raw == Get(recipe.ingredients, << >>)
            n   == Len(raw)
        IN  /\ Len(normalized_ingredients) = n
            /\ \E f \in Bijections(n) :
                 /\ \A i \in 1..n : normalized_ingredients[i].raw = raw[f[i]]
                 /\ \A i, j \in 1..n : i < j =>
                      \/ OrderKey(raw[f[i]]) < OrderKey(raw[f[j]])
                      \/ OrderKey(raw[f[i]]) = OrderKey(raw[f[j]]) /\ f[i] < f[j]
                 /\ Formatted =>
                      /\ Len(ingredients_list) = n
                      /\ \A i \in 1..n :
                           EndsWith(ingredients_list[i],
                                    Get(Get(raw[f[i]].ingredient, [ name |-> << >> ]).name,
                                        << >>))

\* a converted Crumb recipe whose entries had to be reordered and that has two
\* different entries of equal order
C1_Witness ==
    /\ recipe.variant = "crumb"
    /\ pc = "done"
    /\ LET raw == Get(recipe.ingredients, << >>)
       IN  /\ \E i, j \in 1..Len(raw) : i < j /\ OrderKey(raw[i]) > OrderKey(raw[j])
           /\ \E i, j \in 1..Len(raw) :
                i < j /\ OrderKey(raw[i]) = OrderKey(raw[j]) /\ raw[i] # raw[j]

\* the unit the claim C2 expects: the unit as given, with "s" appended when
\* amount > 1, the unit is not "pound" and does not end in "s"
C2_ClaimedUnit(amount, unit) ==
    IF amount.halves > 2 /\ unit # pound /\ ~ EndsWith(unit, << "s" >>)
    THEN unit \o << "s" >>
    ELSE unit

NumberUnitName(line) ==
    LET tokens == SplitMax(line, " ", 2)
    IN  /\ Len(tokens) = 3
        /\ IsDigit(RemoveFirst(tokens[1], "."))
        /\ tokens[2] # << >>
        /\ tokens[3] # << >>

\* C3 as claimed: converting a Paprika recipe whose ingredient lines have the
\* form "<number> <unit> <name>" does not end in an error (the render step
\* accepts the string amount and the markdown file is written).
C3_PaprikaAmountConverts ==
    ( /\ recipe.variant = "paprika"
      /\ MetadataRaises(recipe) = ""
      /\ \E i \in 1..Len(NonBlankLines(Get(recipe.ingredients, << >>))) :
           NumberUnitName(NonBlankLines(Get(recipe.ingredients, << >>))[i]) )
    => pc # "raised"

-----------------------------------------------------------------------------
(* Claims about section extraction *)

StepAlphabet == { "*", "a", " ", "\n" }

\* Crumb recipes with one step whose text ranges over all short strings
SectionRecipes ==
    { [ CrumbBase EXCEPT !.steps = << << [ order |-> << >>, step |-> << t >>,
                                           isSection |-> f ] >> >>,
                         !.images = << << BadPayload >> >> ] :
        t \in SeqsUpTo(StepAlphabet, MaxStepTextLen),
        f \in { << >>, << TRUE >>, << FALSE >> } }
    \cup
    { [ CrumbBase EXCEPT !.steps = << << [ order |-> << >>, step |-> << >>,
                                           isSection |-> f ] >> >>,
                         !.images = << << BadPayload >> >> ] :
        f \in { << >>, << TRUE >> } }

InitSections == \E r \in SectionRecipes : Start(r)

SpecSections == InitSections /\ [][Next]_vars

\* the positions j at which a "**" closes a span opened by a leading "**"
Closings(t) == { j \in 3..(Len(t) - 1) : t[j] = "*" /\ t[j + 1] = "*" }

\* the text begins with a span wrapped in a pair of double asterisks
BeginsWithSpan(t) == StartsWith(t, << "*", "*" >>) /\ Closings(t) # { }

FirstClosing(t) == CHOOSE j \in Closings(t) : \A k \in Closings(t) : j <= k

SpanInner(t) == SubSeq(t, 3, FirstClosing(t) - 1)

\* the text after the span and the whitespace that follows it
AfterSpan(t) ==
    LET rest == SubSeq(t, FirstClosing(t) + 2, Len(t))
        skip == CHOOSE k \in 0..Len(rest) :
                    /\ \A i \in 1..k : IsSpace(rest[i])
                    /\ k < Len(rest) => ~ IsSpace(rest[k + 1])
    IN  SubSeq(rest, skip + 1, Len(rest))

\* what the claim C4 expects for a raw step, given whether its span counts
C4_Expected(step, span) ==
    LET t == Get(step.step, << >>)
    IN  IF span
        THEN [ text |-> AfterSpan(t), is_section |-> TRUE,
               section_name |-> << SpanInner(t) >>, raw |-> step ]
        ELSE [ text |-> t, is_section |-> Get(step.isSection, FALSE),
               section_name |-> << >>, raw |-> step ]

\* C4 as claimed: a step whose text begins with a span wrapped in a pair of
\* double asterisks gets the span's inner text as section_name and loses the span
\* and the following whitespace; any other step keeps its text and has no
\* section_name; is_section is true exactly when a span was found or the step's
\* isSection flag is true.
C4_Original ==
    (recipe.variant = "crumb" /\ pc # "parsed" /\ Len(Get(recipe.steps, << >>)) = 1) =>
        LET step == recipe.steps[1][1]
        IN  normalized_instructions =
                << C4_Expected(step, BeginsWithSpan(Get(step.step, << >>))) >>

\* C4 amended: the span counts only when its inner text, up to the first closing
\* "**", contains no line break; with that, section_name, text and is_section
\* are as claimed.
C4_SectionExtraction ==
    (recipe.variant = "crumb" /\ pc # "parsed" /\ Len(Get(recipe.steps, << >>)) = 1) =>
        LET step == recipe.steps[1][1]
            t    == Get(step.step, << >>)
        IN  normalized_instructions =
                << C4_Expected(step, BeginsWithSpan(t) /\ "\n" \notin Range(SpanInner(t))) >>

\* a step "**<name>**<whitespace><body>" with a non-empty name and body
C4_Witness ==
    /\ pc = "done"
    /\ Len(normalized_instructions) = 1
    /\ normalized_instructions[1].section_name # << >>
    /\ normalized_instructions[1].section_name[1] # << >>
    /\ normalized_instructions[1].text # << >>
    /\ Len(recipe.steps[1][1].step[1]) >
         Len(normalized_instructions[1].section_name[1])
           + Len(normalized_instructions[1].text) + 4

-----------------------------------------------------------------------------
(* Claims about format_instructions *)

RawSteps ==
    { [ order |-> o, step |-> << t >>, isSection |-> << >> ] :
        o \in { << >>, << 1 >> },
        t \in { << "m", "i", "x" >>, << "*", "*", "P", "*", "*", "\n", "m", "i", "x" >>, << "*", "*", "P", "*", "*" >>, << "*", "*", "*", "*", "x" >> } }
    \cup
    { [ order |-> << >>, step |-> << >>, isSection |-> << TRUE >> ] }

DirectionLines == { << "P", "R", "E", "P", ":" >>, << "m", "i", "x" >>, << ":" >>, << "M", "I", "X" >>, << " ", "a", ":", "b", " " >> }

InstructionRecipes ==
    { [ CrumbBase EXCEPT !.steps = << l >>, !.images = << << BadPayload >> >> ] :
        l \in SeqsUpTo(RawSteps, MaxSteps) }

PaprikaInstructionRecipes ==
    { [ PaprikaBase EXCEPT !.directions = << Join(l, << "\n" >>) >>,
                           !.photo_data = << BadPayload >> ] :
        l \in SeqsUpTo(DirectionLines, MaxSteps) }

InitInstructions ==
    \/ \E r \in InstructionRecipes : Start(r)
    \/ \E r \in PaprikaInstructionRecipes : Start(r)

SpecInstructions == InitInstructions /\ [][Next]_vars

\* the layout the claim C5 describes, given which steps count as having a
\* section name: every step contributes one "1. " item, every named step one
\* "### " heading right before its own item
C5_Layout(steps, lines, Named(_)) ==
    LET n == Len(steps)
        k(j) == Cardinality({ i \in 1..j : Named(steps[i]) })
    IN  /\ Len(lines) = n + k(n)
        /\ \A j \in 1..n :
             /\ lines[j + k(j)] = Marker \o steps[j].text
             /\ Named(steps[j]) =>
                    lines[j + k(j) - 1] = Heading \o steps[j].section_name[1]
        /\ Cardinality({ i \in 1..Len(lines) : StartsWith(lines[i], Heading) }) = k(n)
        /\ Cardinality({ i \in 1..Len(lines) : StartsWith(lines[i], Marker) }) = n

C6_NoEmptyItem ==
    Formatted => \A i \in 1..Len(formatted_steps) : formatted_steps[i] # Marker

-----------------------------------------------------------------------------
(* Claims about images *)

TruncatedPayload == [ tag |-> "trunc1", sentinel |-> TRUE, b64ok |-> FALSE ]
TruncatedDecodablePayload == [ tag |-> "trunc2", sentinel |-> TRUE, b64ok |-> TRUE ]

ImagePayloads ==
    { NullPayload, EmptyPayload, GoodPayload, BadPayload, TruncatedPayload,
      TruncatedDecodablePayload }

NameOptions == { << >>, << SampleName >> }

PhotoUrl == << "h", "t", "t", "p", ":", "/", "/", "x" >>

ImageRecipes ==
    { [ CrumbBase EXCEPT !.name = n, !.images = << l >> ] :
        n \in NameOptions, l \in SeqsUpTo(ImagePayloads, MaxImages) }
    \cup { [ CrumbBase EXCEPT !.name = n ] : n \in NameOptions }

PaprikaImageRecipes ==
    { [ PaprikaBase EXCEPT !.name = n, !.photo_data = d, !.photo = u ] :
        n \in NameOptions,
        d \in { << >> } \cup { << q >> : q \in ImagePayloads },
        u \in { << >>, << << >> >>, << PhotoUrl >> } }

InitImages ==
    \/ \E r \in ImageRecipes : Start(r)
    \/ \E r \in PaprikaImageRecipes : Start(r)

SpecImages == InitImages /\ [][Next]_vars

\* the lines of the markdown file of this conversion
MdLines == Split(files[OutputPath(recipe_name)], "\n")

PhotosKey == << "p", "h", "o", "t", "o", "s", ":" >>

\* the list items that follow the "photos:" line of the frontmatter
PhotoLines ==
    LET lines == MdLines
        at    == CHOOSE i \in 1..Len(lines) :
                    lines[i] = PhotosKey /\ \A j \in 1..(i - 1) : lines[j] # PhotosKey
        count == CHOOSE k \in 0..(Len(lines) - at) :
                    /\ \A j \in 1..k : StartsWith(lines[at + j], ListItem)
                    /\ at + k < Len(lines) => ~ StartsWith(lines[at + k + 1], ListItem)
    IN  SubSeq(lines, at + 1, at + count)

\* an images entry that the Crumb parser has to drop
Dropped(p) == p.tag \in { "null", "empty" } \/ p.sentinel

\* the path an images entry at (1-based) position i would be written to
CrumbImagePath(i) ==
    ImagesPrefix \o Sanitize(GetRecipeName(recipe)) \o << "_" >> \o IntStr(i - 1) \o Jpg

\* C7: for a Crumb recipe, an images entry that contains the truncation sentinel
\* (or is null or empty) is never written under images/ and never appears as a
\* "- images/..." line, while the conversion does not fail and writes the
\* markdown file.
C7_TruncatedNeverWritten ==
    recipe.variant = "crumb" =>
        /\ pc # "raised"
        /\ pc = "done" => OutputPath(recipe_name) \in DOMAIN files
        /\ \A i \in 1..Len(Get(recipe.images, << >>)) :
             Dropped(recipe.images[1][i]) =>
                /\ CrumbImagePath(i) \notin opened
                /\ CrumbImagePath(i) \notin DOMAIN files
                /\ pc = "done" => ListItem \o CrumbImagePath(i) \notin Range(MdLines)

\* a finished Crumb conversion with a truncated entry next to a written image
C7_Witness ==
    /\ recipe.variant = "crumb"
    /\ pc = "done"
    /\ \E i \in 1..Len(Get(recipe.images, << >>)) : recipe.images[1][i].sentinel
    /\ saved # << >>

\* C8 as claimed: for every parser variant, a base64 payload that contains the
\* truncation sentinel is never passed to the base64 decoder.
C8_SentinelNeverDecoded == \A p \in decoded : ~ p.sentinel

\* C9: when decoding or writing one image fails, save_image returns the empty
\* string instead of raising and convert_to_markdown continues: the remaining
\* images are still processed, the markdown file is still written, and the
\* failed image is absent from the photos list.
C9_ImageFailureIsLocal ==
    /\ failed # { } => (pc \in { "images", "done" } /\ exc = "")
    /\ \A q \in failed : q \notin Range(image_paths)
    /\ pc = "done" =>
         /\ \A i \in 1..Len(image_data_list) :
              image_data_list[i].format = "base64" => image_data_list[i].data \in decoded
         /\ OutputPath(recipe_name) \in DOMAIN files
         /\ \A q \in failed : ListItem \o q \notin Range(PhotoLines)

\* a finished conversion in which one image failed and a later one was written
C9_Witness ==
    /\ pc = "done"
    /\ failed # { }
    /\ saved # << >>
    /\ ImagesPrefix \o image_data_list[1].filename \in failed

\* C10: the photos list of the frontmatter holds exactly the paths
\* "images/<filename>" of the images written during this conversion, in order;
\* a URL-format image is never written as a file and never listed.
C10_PhotosAreSavedImages ==
    /\ \A i \in 1..Len(image_data_list) :
         image_data_list[i].format = "url" =>
            /\ ImagesPrefix \o image_data_list[i].filename \notin opened
            /\ ImagesPrefix \o image_data_list[i].filename \notin DOMAIN files
    /\ pc = "done" =>
         /\ PhotoLines = [ i \in 1..Len(saved) |-> ListItem \o saved[i] ]
         /\ \A i \in 1..Len(saved) :
              /\ saved[i] \in DOMAIN files
              /\ StartsWith(saved[i], ImagesPrefix)

\* a finished conversion that wrote one image and skipped or failed another
C10_Witness ==
    /\ pc = "done"
    /\ Len(saved) = 1
    /\ Len(Get(recipe.images, << >>)) = 2
    /\ Len(PhotoLines) = 1


-----------------------------------------------------------------------------
(* Claims about the output file *)

NextConvert == ParseFile \/ Extract \/ Format \/ ProcessImage \/ WriteMarkdown

MaxNameLen == 3

NameAlphabet == { "a", "Z", "7", " ", "/", "_" }

TestRecipe == << "T", "e", "s", "t", " ", "R", "e", "c", "i", "p", "e" >>

RecipeNames ==
    { << >>, << TestRecipe >> } \cup { << n >> : n \in SeqsUpTo(NameAlphabet, MaxNameLen) }

NamedRecipes ==
    { [ CrumbBase EXCEPT !.name = n, !.images = << << GoodPayload >> >> ] : n \in RecipeNames }
    \cup { [ PaprikaBase EXCEPT !.name = n, !.photo_data = << GoodPayload >> ] :
             n \in RecipeNames }

OldContent == << "o", "l", "d" >>
KeepPath == << "k", "e", "e", "p", ".", "m", "d" >>

\* the output directory before the conversion: empty, or holding an earlier
\* file under the name the conversion is going to write and one other file
OutputDirs(r) ==
    { << >>,
      WriteFile(WriteFile(<< >>, OutputPath(GetRecipeName(r)), OldContent),
                KeepPath, OldContent) }

InitNames ==
    \E r \in NamedRecipes : \E fs \in OutputDirs(r) : \E p \in { "None", ParserOf(r) } :
        Call(SourceOf(r), p, fs, ImportedPaprika)

SpecNames == InitNames /\ [][NextConvert]_vars

\* the name the source gives the recipe, the placeholder when it gives none
C11_Name == IF recipe.name = << >> THEN UnnamedRecipe ELSE recipe.name[1]

C11_Kept == Range(Lowercase) \cup Range(Uppercase) \cup Range(Digits)

\* the markdown files of the output directory other than the one that was there before
C11_Written == { q \in DOMAIN files : EndsWith(q, MdSuffix) /\ q # KeepPath }

\* C11: a finished conversion has written exactly one markdown file, named
\* S.md where S has the length of the recipe name (the placeholder name when
\* the source has none), keeps its letters and digits and has "_" in every
\* other position; the file holds exactly the assembled text, whatever it
\* held before.
C11_OutputFile ==
    pc = "done" =>
        \E q \in C11_Written :
            /\ C11_Written = { q }
            /\ Len(q) = Len(C11_Name) + Len(MdSuffix)
            /\ \A i \in 1..Len(C11_Name) :
                 /\ C11_Name[i] \in C11_Kept => q[i] = C11_Name[i]
                 /\ C11_Name[i] \notin C11_Kept => q[i] = "_"
            /\ files[q] = Join(MdContent(C11_Name, metadata, image_paths, ingredients_list,
                                         directions), << "\n" >>)
            /\ recipe.name = << TestRecipe >> => q = << "T", "e", "s", "t", "_", "R", "e", "c", "i", "p", "e", ".", "m", "d" >>

\* a finished conversion of "Test Recipe" over an earlier Test_Recipe.md
C11_Witness ==
    /\ pc = "done"
    /\ recipe.name = << TestRecipe >>
    /\ KeepPath \in DOMAIN files
    /\ files[<< "T", "e", "s", "t", "_", "R", "e", "c", "i", "p", "e", ".", "m", "d" >>] # OldContent

\* a finished conversion of a recipe without a name
C11_WitnessUnnamed ==
    /\ pc = "done"
    /\ recipe.name = << >>
    /\ << "U", "n", "n", "a", "m", "e", "d", "_", "R", "e", "c", "i", "p", "e", ".", "m", "d" >> \in DOMAIN files


-----------------------------------------------------------------------------
(* Claims about the frontmatter *)

MaxEntries == 2

BrokenName == << "a", "\n", "t", "a", "g", "s", ":" >>

\* Crumb ingredient entries: the sample's "2 cups", a bare name, and a name
\* that holds a line break
FrontmatterIngredients ==
    { Ingredient(<< >>, << "f" >>, Quantity(4, cup)),
      Ingredient(<< >>, << "g" >>, << >>),
      Ingredient(<< >>, BrokenName, << >>) }

WebLinks == { << >>, << PhotoUrl >> }

FrontmatterRecipes ==
    { [ CrumbBase EXCEPT !.ingredients = << l >>, !.images = << i >>, !.webLink = w,
                         !.serves = s[1], !.cookingDuration = s[2] ] :
        l \in SeqsUpTo(FrontmatterIngredients, MaxEntries),
        i \in SeqsUpTo({ GoodPayload, BadPayload }, MaxEntries),
        w \in WebLinks, s \in { << << >>, << >> >>, << << 4 >>, << 45 >> >> } }
    \cup
    { [ PaprikaBase EXCEPT !.ingredients = << Join(l, << "\n" >>) >>, !.photo_data = d,
                           !.source_url = w, !.servings = s, !.cook_time = t,
                           !.difficulty = w ] :
        l \in SeqsUpTo({ << "f" >>, << "g" >> }, MaxEntries),
        d \in { << >>, << GoodPayload >> },
        w \in WebLinks, s \in { << >>, << << "4" >> >> },
        t \in { << >>, << << "4", "5" >> >> } }

InitFrontmatter ==
    \E r \in FrontmatterRecipes : \E p \in { "None", ParserOf(r) } :
        Call(SourceOf(r), p, << >>, ImportedPaprika)

SpecFrontmatter == InitFrontmatter /\ [][NextConvert]_vars

\* the lines of a written file between its first line and the next "---" line
C12_Block(lines) ==
    LET fences == { i \in 2..Len(lines) : lines[i] = Fence }
        close  == CHOOSE i \in fences : \A j \in fences : i <= j
    IN  IF fences = { } THEN << >> ELSE SubSeq(lines, 2, close - 1)

\* the positions of the block's key lines, in order
C12_KeyLines(block) ==
    LET at == { i \in 1..Len(block) : ~ StartsWith(block[i], ListItem) }
    IN  [ k \in 1..Cardinality(at) |->
            CHOOSE i \in at : Cardinality({ j \in at : j <= i }) = k ]

\* the item lines that follow the k-th key line
C12_Items(block, keys, k) ==
    SubSeq(block, keys[k] + 1,
           IF k < Len(keys) THEN keys[k + 1] - 1 ELSE Len(block))

\* C12 as claimed: the written file starts with "---", and up to the next
\* "---" line it holds the eleven keys once each in the fixed order, a list
\* key as "key:" followed by one "  - item" line per element, a scalar key as
\* "key: value".
C12_FrontmatterLayout ==
    pc = "done" =>
        LET fm    == Frontmatter(metadata, image_paths, ingredients_list)
            lines == MdLines
            block == C12_Block(lines)
            keys  == C12_KeyLines(block)
        IN  /\ lines[1] = Fence
            /\ Len(keys) = Len(fm)
            /\ \A k \in 1..Len(fm) :
                 IF fm[k].list
                 THEN /\ block[keys[k]] = fm[k].key \o << ":" >>
                      /\ C12_Items(block, keys, k) =
                           [ i \in 1..Len(fm[k].value) |-> ListItem \o fm[k].value[i] ]
                 ELSE /\ block[keys[k]] = fm[k].key \o << ":", " " >> \o fm[k].value
                      /\ C12_Items(block, keys, k) = << >>

\* the same layout, for the recipes in which no rendered value holds a line break
C12_LayoutOfSingleLineValues ==
    (/\ pc = "done"
     /\ \A i \in 1..Len(ingredients_list) : "\n" \notin Range(ingredients_list[i])
     /\ "\n" \notin Range(metadata.source_url) \cup Range(metadata.difficulty))
        => C12_FrontmatterLayout

\* the sample's lines: "servings: 4", "cook-time: 45 minutes", "  - 2 cups f"
C12_Sample ==
    /\ pc = "done"
    /\ Len(image_paths) = 1
    /\ LET block == C12_Block(MdLines)
       IN  /\ << "s", "e", "r", "v", "i", "n", "g", "s", ":", " ", "4" >> \in Range(block)
           /\ << "c", "o", "o", "k", "-", "t", "i", "m", "e", ":", " ", "4", "5", " ", "m", "i", "n", "u", "t", "e", "s" >> \in Range(block)
           /\ << " ", " ", "-", " ", "2", " ", "c", "u", "p", "s", " ", "f" >> \in Range(block)
    /\ C12_FrontmatterLayout


-----------------------------------------------------------------------------
(* Claims about the registry *)

MaxRegistrations == 2
MaxExtensions == 2

txt == << "t", "x", "t" >>

ExtensionUniverse == { crumb, << "C", "r", "U", "m", "B" >>, txt, << "T", "X", "T" >> }

\* the extensions passed to register_parser
RegisteredUniverse == { crumb, << "C", "r", "U", "m", "B" >>, << "T", "X", "T" >> }

ParserClasses == { CrumbParser, PaprikaParser }

\* the process after "import cookdown.parsers", about to make registry calls
InitRegistry == Call(SourceOf(CrumbBase), "None", << >>, ImportedParsers)

NextRegistry ==
    \/ \E exts \in SeqsUpTo(RegisteredUniverse, MaxExtensions) :
         \E parser \in ParserClasses :
            /\ Len(calls) <= MaxRegistrations
            /\ register_parser(exts, parser)
    \/ \E extension \in ExtensionUniverse : get_parser_for_extension(extension)

SpecRegistry == InitRegistry /\ [][NextRegistry]_vars

\* two extensions that differ at most in the case of their letters
C13_EqualIgnoringCase(a, b) ==
    /\ Len(a) = Len(b)
    /\ \A i \in 1..Len(a) :
         \/ a[i] = b[i]
         \/ \E k \in 1..Len(Lowercase) : { a[i], b[i] } = { Lowercase[k], Uppercase[k] }

\* the parser of the latest of the first n register calls that names e in any
\* letter case, "None" when there is no such call
C13_Registered(e, n) ==
    LET hits == { c \in 1..n : \E i \in 1..Len(calls[c].extensions) :
                                  C13_EqualIgnoringCase(calls[c].extensions[i], e) }
    IN  IF hits = { } THEN "None"
        ELSE calls[CHOOSE c \in hits : \A d \in hits : d <= c].parser_class

\* C13: get_parser_for_extension(e) returns the parser of the latest
\* register_parser call that named e in any letter case, and None for an
\* extension no call has named; so does every lookup that was made.
C13_CaseInsensitiveLookup ==
    /\ \A e \in ExtensionUniverse :
         GetParserForExtension(PARSERS, e) = C13_Registered(e, Len(calls))
    /\ lookup # NoLookup =>
         lookup.parser_class = C13_Registered(lookup.extension, lookup.after)

\* "txt" was registered in upper case and looked up in lower case, "crumb" was
\* registered in lower case and resolves in mixed case
C13_Witness ==
    /\ \E c \in 1..Len(calls) : calls[c].extensions = << << "T", "X", "T" >> >>
                                  /\ calls[c].parser_class = PaprikaParser
    /\ \A c \in 1..Len(calls) : txt \notin Range(calls[c].extensions)
    /\ lookup.extension = txt
    /\ lookup.parser_class = PaprikaParser
    /\ GetParserForExtension(PARSERS, << "C", "r", "U", "m", "B" >>) = CrumbParser

\* a lookup of an extension that was never registered
C13_WitnessNone ==
    /\ lookup.extension = txt
    /\ lookup.parser_class = "None"
    /\ Len(calls) > 1


-----------------------------------------------------------------------------
(* Claims about unsupported extensions *)

\* sub occurs in s
Contains(s, sub) ==
    \E i \in 1..(Len(s) - Len(sub) + 1) : SubSeq(s, i, i + Len(sub) - 1) = sub

\* the file of SourceOf(r) under another extension
Renamed(r, ext) == [ SourceOf(r) EXCEPT !.path = << "a", "." >> \o ext ]

OtherExtensions == { txt, << "T", "X", "T" >>, << "j", "s", "o", "n" >> }

Registries == { ImportedParsers, ImportedPaprika }

\* convert_to_markdown called without a parser on recipe files and on files
\* whose extension no parser handles
InitUnsupported ==
    \E r \in ImageRecipes \cup PaprikaImageRecipes : \E d \in Registries :
        \/ Call(SourceOf(r), "None", << >>, d)
        \/ \E ext \in OtherExtensions : Call(Renamed(r, ext), "None", << >>, d)

SpecUnsupported == InitUnsupported /\ [][NextConvert]_vars

\* the registry has no parser for the extension of the file
C14_Unsupported == GetParserForExtension(PARSERS, GetFileExtension(source.path)) = "None"

\* C14 as claimed: a conversion of a file with an unsupported extension ends
\* in a failure whose text names the extension and every supported extension,
\* and writes no file.
C14_UnsupportedReported ==
    (C14_Unsupported /\ pc # "start") =>
        /\ pc = "raised"
        /\ files = << >>
        /\ Contains(message, GetFileExtension(source.path))
        /\ \A i \in 1..Len(GetSupportedExtensions(PARSERS)) :
             Contains(message, GetSupportedExtensions(PARSERS)[i])

\* what the code does there: the failure names the extension only
C14_UnsupportedNamed ==
    (C14_Unsupported /\ pc # "start") =>
        /\ pc = "raised"
        /\ exc = "ValueError"
        /\ files = << >>
        /\ message = NoParserFound \o GetFileExtension(source.path)


-----------------------------------------------------------------------------
(* Claims about the batch driver *)

MaxFiles == 3
MaxWorkers == 2

File(path, content, hangs) == [ path |-> path, content |-> content, hangs |-> hangs ]

Gzip(r) == [ kind |-> "gzip", recipe |-> r ]

Named(base, n) == [ base EXCEPT !.name = << n >> ]

\* the archive of the batch tests: two recipes at the top level
TwoRecipeArchive ==
    [ kind |-> "zip",
      entries |-> << [ name |-> << "x", ".", "p", "a", "p", "r", "i", "k", "a", "r", "e", "c", "i", "p", "e" >>,
                       content |-> Gzip(Named(PaprikaBase, << "X" >>)) ],
                     [ name |-> << "y", ".", "p", "a", "p", "r", "i", "k", "a", "r", "e", "c", "i", "p", "e" >>,
                       content |-> Gzip(Named(PaprikaBase, << "Y" >>)) ] >> ]

\* the files an input directory is made of: a Crumb recipe with an image, a
\* .crumb file that is not JSON, a single Paprika recipe, an archive of two
\* recipes, two .crumb files whose conversion never finishes and a text file
InputFiles ==
    { File(<< "a", ".", "c", "r", "u", "m", "b" >>,
           [ kind |-> "json",
             recipe |-> [ CrumbBase EXCEPT !.images = << << GoodPayload >> >> ] ], FALSE),
      File(<< "b", ".", "c", "r", "u", "m", "b" >>, [ kind |-> "garbage" ], FALSE),
      File(<< "c", ".", "p", "a", "p", "r", "i", "k", "a", "r", "e", "c", "i", "p", "e" >>, Gzip(Named(PaprikaBase, << "C" >>)), FALSE),
      File(<< "d", ".", "p", "a", "p", "r", "i", "k", "a", "r", "e", "c", "i", "p", "e", "s" >>, TwoRecipeArchive, FALSE),
      File(<< "h", ".", "c", "r", "u", "m", "b" >>, [ kind |-> "json", recipe |-> Named(CrumbBase, << "H" >>) ], TRUE),
      File(<< "k", ".", "c", "r", "u", "m", "b" >>, [ kind |-> "json", recipe |-> Named(CrumbBase, << "K" >>) ], TRUE),
      File(<< "e", ".", "t", "x", "t" >>, [ kind |-> "garbage" ], FALSE) }

InputDirs == { dir \in SUBSET InputFiles : Cardinality(dir) <= MaxFiles }

ExtensionLists == { "None", << txt, paprikarecipes >> }

\* batch_convert(input_dir, output_dir, False, max_workers, False, None, extensions)
\* is called in a process that imported cookdown.batch, and in one that also
\* imported cookdown.parsers.paprika
InitBatch ==
    \E dir \in InputDirs : \E exts \in ExtensionLists : \E n \in 1..MaxWorkers :
      \E d \in Registries :
        /\ Fresh("idle", SourceOf(CrumbBase), "None", << >>, d)
        /\ input_dir = dir
        /\ extensions = exts
        /\ max_workers = n
        /\ batch_pc = "called"
        /\ recipe_files = << >>
        /\ futures = << >>
        /\ results = << >>
        /\ successful_conversions = 0
        /\ failed_conversions = 0
        /\ conversions = << >>
        /\ write_log = << >>

NextBatch ==
    \/ Discover
    \/ WorkerStart
    \/ \E i \in 1..Len(futures) : WorkerFinish(i)
    \/ \E i \in 1..Len(futures) : Collect(i)
    \/ Return

SpecBatch == InitBatch /\ [][NextBatch]_vars

\* the call of the i-th file is running and its conversion is one that returns
Converting(i) == IF i \in Running THEN ~ recipe_files[i].hangs ELSE FALSE

\* the worker threads and the collecting thread keep being scheduled, and a
\* conversion that does not hang returns: WorkerFinish(i) is enabled exactly
\* while Converting(i) holds and ends it for good, so that weak fairness of
\* WorkerFinish(i) is []<>~Converting(i)
SpecBatchFair ==
    /\ SpecBatch
    /\ WF_vars(Discover)
    /\ WF_vars(WorkerStart)
    /\ \A i \in 1..(MaxFiles + 1) : WF_vars(Collect(i)) /\ []<>(~ Converting(i))
    /\ WF_vars(Return)

\* C15 as claimed: from the start of the batch driver on, the registry
\* resolves crumb to CrumbParser and paprikarecipe and paprikarecipes to
\* PaprikaParser, and get_supported_extensions lists the three.
C15_AllParsersRegistered ==
    batch_pc # "idle" =>
        /\ GetParserForExtension(PARSERS, crumb) = CrumbParser
        /\ GetParserForExtension(PARSERS, paprikarecipe) = PaprikaParser
        /\ GetParserForExtension(PARSERS, paprikarecipes) = PaprikaParser
        /\ Range(GetSupportedExtensions(PARSERS)) = { crumb, paprikarecipe, paprikarecipes }

\* what the code does: unless the caller imported the paprika module itself,
\* the registry of the batch driver holds crumb only
C15_OnlyCrumbUnlessImported ==
    (batch_pc # "idle" /\ Len(calls) = 1) =>
        /\ GetSupportedExtensions(PARSERS) = << crumb >>
        /\ GetParserForExtension(PARSERS, paprikarecipe) = "None"
        /\ \A i \in 1..Len(recipe_files) : EndsWith(recipe_files[i].path, crumb)
                                            \/ extensions # "None"


-----------------------------------------------------------------------------
(* Claims about archives *)

MaxArchiveEntries == 3

\* entries of an archive: two recipes at the top level, a recipe in a
\* folder, a file of another kind, and an entry named like the first recipe
\* that is not gzip
ArchiveEntries ==
    { [ name |-> << "x", ".", "p", "a", "p", "r", "i", "k", "a", "r", "e", "c", "i", "p", "e" >>, content |-> Gzip(Named(PaprikaBase, << "X" >>)) ],
      [ name |-> << "y", ".", "p", "a", "p", "r", "i", "k", "a", "r", "e", "c", "i", "p", "e" >>, content |-> Gzip([ Named(PaprikaBase, << "Y" >>) EXCEPT !.photo_data = << GoodPayload >> ]) ],
      [ name |-> << "s", "/", "z", ".", "p", "a", "p", "r", "i", "k", "a", "r", "e", "c", "i", "p", "e" >>, content |-> Gzip(Named(PaprikaBase, << "Z" >>)) ],
      [ name |-> << "n", ".", "t", "x", "t" >>, content |-> [ kind |-> "garbage" ] ],
      [ name |-> << "x", ".", "p", "a", "p", "r", "i", "k", "a", "r", "e", "c", "i", "p", "e" >>, content |-> [ kind |-> "garbage" ] ] }

ArchivePaths == { << "d", ".", "p", "a", "p", "r", "i", "k", "a", "r", "e", "c", "i", "p", "e", "s" >>, << "d", ".", "P", "A", "P", "R", "I", "K", "A", "R", "E", "C", "I", "P", "E", "S" >> }

ArchiveFiles ==
    { [ path |-> p, content |-> [ kind |-> "zip", entries |-> l ] ] :
        p \in ArchivePaths, l \in SeqsUpTo(ArchiveEntries, MaxArchiveEntries) }
    \cup { [ path |-> p, content |-> [ kind |-> "garbage" ] ] : p \in ArchivePaths }

InitArchives ==
    \E file \in ArchiveFiles : \E p \in { "None", PaprikaParser } :
        Call(file, p, << >>, ImportedPaprika)

SpecArchives == InitArchives /\ [][NextConvert]_vars

\* the file is an archive by its name
C16_IsArchive == Lower(GetFileExtension(source.path)) = paprikarecipes

\* the entries whose name has the single-recipe extension, in listing order
C16_Matching ==
    IF source.content.kind = "zip"
    THEN SelectSeq(source.content.entries,
                   LAMBDA e : EndsWith(e.name, PaprikarecipeSuffix))
    ELSE << >>

\* C16 as claimed: once parse_file has run on an archive with a matching
\* entry (whose first matching entry is a readable recipe), the recipe in
\* hand is the recipe of the first matching entry in listing order, wherever
\* that entry lies in the archive.
C16_FirstListedEntry ==
    (/\ GetFileExtension(source.path) = paprikarecipes
     /\ C16_Matching # << >>
     /\ C16_Matching[1].content.kind = "gzip"
     /\ pc # "start")
        => recipe = C16_Matching[1].content.recipe

\* what holds of the code: a recipe that parse_file returns is the recipe of
\* some matching entry that lies at the top level of the archive
C16_SomeTopLevelEntry ==
    (GetFileExtension(source.path) = paprikarecipes /\ pc \notin { "start", "raised" })
        => \E i \in 1..Len(C16_Matching) :
              /\ "/" \notin Range(C16_Matching[i].name)
              /\ C16_Matching[i].content.kind = "gzip"
              /\ recipe = C16_Matching[i].content.recipe

\* C17: a conversion of an archive without an entry of the single-recipe
\* extension, or of an archive file that is not a zip, never gets past
\* parse_file with a recipe: it raises, and neither a markdown file nor an
\* image file is opened or written.
C17_EmptyArchiveRaises ==
    (C16_IsArchive /\ C16_Matching = << >>) =>
        /\ pc \in { "start", "parsed", "raised" }
        /\ pc = "parsed" => recipe = NoneRecipe
        /\ files = << >>
        /\ opened = { }
        /\ ~ images_dir

\* the conversion of a zip archive that holds only a text file has raised
C17_Witness ==
    /\ GetFileExtension(source.path) = paprikarecipes
    /\ source.content.kind = "zip"
    /\ Len(source.content.entries) = 1
    /\ C16_Matching = << >>
    /\ pc = "raised"
    /\ exc = "ValueError"
    /\ message = << "N", "o", " ", "r", "e", "c", "i", "p", "e", " ", "f", "i", "l", "e", "s", " ", "f", "o", "u", "n", "d", " ", "i", "n", " ", "a", "r", "c", "h", "i", "v", "e", ":", " ", "d", ".", "p", "a", "p", "r", "i", "k", "a", "r", "e", "c", "i", "p", "e", "s" >>

\* the conversion of an archive file that is not a zip has raised
C17_WitnessNotZip ==
    /\ GetFileExtension(source.path) = paprikarecipes
    /\ source.content.kind = "garbage"
    /\ pc = "raised"
    /\ message = << "F", "a", "i", "l", "e", "d", " ", "t", "o", " ", "e", "x", "t", "r", "a", "c", "t", " ", "a", "r", "c", "h", "i", "v", "e", " ", "d", ".", "p", "a", "p", "r", "i", "k", "a", "r", "e", "c", "i", "p", "e", "s", ":", " ", "F", "i", "l", "e", " ", "i", "s", " ", "n", "o", "t", " ", "a", " ", "z", "i", "p", " ", "f", "i", "l", "e" >>


\* the single-recipe files of the input directory
C18_Singles ==
    { f \in input_dir : Lower(GetFileExtension(f.path)) \in { crumb, paprikarecipe }
                        /\ f.path[1] # "." }

\* the archives of the input directory
C18_Archives ==
    { f \in input_dir : Lower(GetFileExtension(f.path)) = paprikarecipes
                        /\ f.path[1] # "." }

RECURSIVE C18_Recipes(_)
\* the number of recipes in a set of archives
C18_Recipes(S) ==
    IF S = { } THEN 0
    ELSE LET f == CHOOSE x \in S : TRUE
         IN  Len(ArchiveRecipeFiles(f.content.entries)) + C18_Recipes(S \ { f })

\* C18 as claimed: when batch_convert, called for all supported formats in
\* a process that registered the Paprika parser, has returned for a
\* directory of s single-recipe files and archives holding a recipes, it
\* has performed s + a conversions.
C18_ArchiveFanOut ==
    (/\ batch_pc = "returned"
     /\ extensions = "None"
     /\ PARSERS = ImportedPaprika)
        => Len(results) = Cardinality(C18_Singles) + C18_Recipes(C18_Archives)

\* what holds of the code: an archive is one conversion, whatever it holds
C18_OneConversionPerArchive ==
    (/\ batch_pc = "returned"
     /\ extensions = "None"
     /\ PARSERS = ImportedPaprika)
        => Len(results) = Cardinality(C18_Singles) + Cardinality(C18_Archives)


\* the parser convert_file finds for a discovered file
C19_Parser(f) == GetParserForExtension(PARSERS, Lower(GetFileExtension(f.path)))

\* convert_to_markdown raises on the file, or there is no parser for it
C19_Fails(f) ==
    \/ C19_Parser(f) = "None"
    \/ \A first \in FirstGlobbed(f) : \A io \in IOOutcomes :
          ConvertToMarkdown(f, C19_Parser(f), << >>, first, io).raised

\* the texts a failed result of the file can carry
C19_ErrorTexts(f) ==
    IF C19_Parser(f) = "None"
    THEN { NoParserFoundFor \o Lower(GetFileExtension(f.path)) }
    ELSE { ConvertToMarkdown(f, C19_Parser(f), << >>, first, io).text :
             first \in FirstGlobbed(f), io \in IOOutcomes }

\* one result per discovered file, failed with the error text for the files
\* that fail and successful, with the markdown file in place, for the others,
\* and counts that add up
C19_OneResultPerFile ==
    /\ Len(results) = Len(recipe_files)
    /\ \A i \in 1..Len(recipe_files) :
          LET f == recipe_files[i]
              of == { k \in 1..Len(results) : results[k].file = f.path }
          IN  /\ Cardinality(of) = 1
              /\ \A k \in of :
                    IF C19_Fails(f)
                    THEN /\ ~ results[k].success
                         /\ results[k].output # << >>
                         /\ results[k].output \in C19_ErrorTexts(f)
                    ELSE /\ results[k].success
                         /\ \E path \in DOMAIN files :
                               /\ results[k].output = ConvertedTo \o path
                               /\ EndsWith(path, MdSuffix)
    /\ successful_conversions =
          Cardinality({ k \in 1..Len(results) : results[k].success })
    /\ failed_conversions =
          Cardinality({ k \in 1..Len(results) : ~ results[k].success })
    /\ successful_conversions + failed_conversions = Len(recipe_files)

\* every conversion of the batch terminates
C19_ConversionsTerminate == \A f \in input_dir : ~ f.hangs

C20_Hung == { i \in 1..Len(futures) : recipe_files[i].hangs }

\* the i-th call is submitted and its conversion is one that finishes
C20_Other(i) == IF i \in 1..Len(futures) THEN ~ recipe_files[i].hangs ELSE FALSE

\* the result of the i-th call was recorded
C20_Recorded(i) == IF i \in 1..Len(futures) THEN futures[i].state = "collected" ELSE FALSE

\* there is no timeout and no cancellation: a running call whose conversion
\* never finishes stays running, and while such a call is submitted
\* batch_convert does not return
C20_NeverAbandoned ==
    /\ [][\A i \in C20_Hung : i \in Running => futures'[i].state = "running"]_vars
    /\ [](C20_Hung # { } => batch_pc # "returned")

\* C20 as claimed: a conversion that never finishes does not affect the
\* others. Every other submitted conversion eventually starts, completes and
\* has its result recorded, no submitted conversion waits for a running one
\* to finish, the hung conversion is never abandoned and batch_convert does
\* not return.
C20_HangAffectsNoOther ==
    /\ \A i \in 1..(MaxFiles + 1) :
          [](C20_Other(i) => <>C20_Recorded(i))
    /\ [](IF Pending # { } THEN PoolHasIdleThread ELSE TRUE)
    /\ C20_NeverAbandoned

\* C20, amended: while fewer conversions hang than the pool has worker
\* threads, every other submitted conversion eventually starts, completes
\* and has its result recorded; a submitted conversion waits only while
\* every worker thread is busy with another one; the hung conversion is
\* never abandoned and batch_convert does not return.
C20_HangLeavesAThread ==
    /\ \A i \in 1..(MaxFiles + 1) :
          []((IF Cardinality(C20_Hung) < max_workers THEN C20_Other(i) ELSE FALSE)
                => <>C20_Recorded(i))
    /\ [](IF batch_pc = "collecting" /\ Pending # { }
          THEN ENABLED WorkerStart \/ Cardinality(Running) = max_workers
          ELSE TRUE)
    /\ C20_NeverAbandoned

\* a conversion hangs in one thread of a pool of two, and the result of a
\* conversion submitted after it is recorded
C20_Witness ==
    /\ max_workers = 2
    /\ Len(futures) >= 2
    /\ recipe_files[1].hangs
    /\ futures[1].state = "running"
    /\ ~ recipe_files[2].hangs
    /\ futures[2].state = "collected"
    /\ Len(results) >= 1
    /\ batch_pc = "collecting"


-----------------------------------------------------------------------------
(* Claims about the flat variant's text blocks *)

MaxBlockLen == 5

BlockAlphabet == { "2", ".", "f", " ", "\n" }

\* flat-variant recipes whose ingredients are a text block, with and without
\* a photo
BlockRecipes ==
    { [ PaprikaBase EXCEPT !.ingredients = << b >>, !.photo_data = d ] :
        b \in SeqsUpTo(BlockAlphabet, MaxBlockLen),
        d \in { << >>, << GoodPayload >> } }

InitBlocks == \E r \in BlockRecipes : Start(r)

SpecBlocks == InitBlocks /\ [][Next]_vars

RECURSIVE C22_Tokens(_, _)
\* a line split on runs of whitespace into at most k tokens, the last one
\* the remainder of the line
C22_Tokens(s, k) ==
    LET t == LStrip(s)
        ws == { i \in 1..Len(t) : IsSpace(t[i]) }
    IN  IF t = << >> THEN << >>
        ELSE IF k = 1 \/ ws = { } THEN << t >>
        ELSE LET i == CHOOSE j \in ws : \A l \in ws : j <= l
             IN  << SubSeq(t, 1, i - 1) >> \o C22_Tokens(SubSeq(t, i + 1, Len(t)), k - 1)

\* a decimal number: digits with at most one point
C22_Number(tok) ==
    /\ \E i \in 1..Len(tok) : tok[i] \in Range(Digits)
    /\ \A i \in 1..Len(tok) : tok[i] \in Range(Digits) \cup { "." }
    /\ Cardinality({ i \in 1..Len(tok) : tok[i] = "." }) <= 1

\* the entry the claim describes for a line
C22_Entry(line) ==
    LET tok == C22_Tokens(line, 3)
    IN  IF Len(tok) = 3 /\ C22_Number(tok[1])
        THEN [ name |-> tok[3], amount |-> StrVal(tok[1]), unit |-> tok[2] ]
        ELSE IF Len(tok) = 2 /\ C22_Number(tok[1])
        THEN [ name |-> tok[2], amount |-> StrVal(tok[1]), unit |-> << >> ]
        ELSE [ name |-> line, amount |-> StrVal(<< >>), unit |-> << >> ]

\* the entries get_ingredients has returned agree with the claim's on the
\* lines that satisfy ok
C22_Agree(ok(_)) ==
    (recipe.variant = "paprika" /\ pc \notin { "start", "parsed" }) =>
        LET lines == NonBlankLines(Get(recipe.ingredients, << >>))
        IN  /\ Len(normalized_ingredients) = Len(lines)
            /\ \A i \in 1..Len(lines) :
                  ok(lines[i]) =>
                     /\ normalized_ingredients[i].name = C22_Entry(lines[i]).name
                     /\ normalized_ingredients[i].amount = C22_Entry(lines[i]).amount
                     /\ normalized_ingredients[i].unit = C22_Entry(lines[i]).unit

\* C22 as claimed: get_ingredients yields one entry per non-blank trimmed
\* line, in line order, and each entry is the line split on whitespace into
\* at most 3 tokens: number, unit and remainder; number and name; or the
\* whole line as the name.
C22_WhitespaceTokens == C22_Agree(LAMBDA line : TRUE)

\* what holds of the code: the same, for the lines in which no whitespace
\* character follows another and every whitespace character is a space
C22_SingleSpaceTokens ==
    C22_Agree(LAMBDA line :
                 \A i \in 1..Len(line) :
                    IsSpace(line[i]) => line[i] = " " /\ (i > 1 => ~ IsSpace(line[i - 1])))


DirectionAlphabet == { "A", "b", ":", " ", "\n" }

\* flat-variant recipes whose directions are a text block
DirectionBlockRecipes ==
    { [ PaprikaBase EXCEPT !.directions = << b >>, !.photo_data = << GoodPayload >> ] :
        b \in SeqsUpTo(DirectionAlphabet, MaxBlockLen) }

InitDirections == \E r \in DirectionBlockRecipes : Start(r)

SpecDirections == InitDirections /\ [][Next]_vars

\* the line is entirely upper-case: it has a letter and none in lower case
C23_UpperCase(line) ==
    /\ \E i \in 1..Len(line) : line[i] \in Range(Uppercase)
    /\ ~ \E i \in 1..Len(line) : line[i] \in Range(Lowercase)

\* the line without the colons it ends with
C23_Name(line) ==
    LET keep == { i \in 1..Len(line) : \E j \in i..Len(line) : line[j] # ":" }
    IN  SubSeq(line, 1, Cardinality(keep))

C23_WitnessUpper ==
    /\ recipe.variant = "paprika"
    /\ recipe.directions = << << "A", " ", "A" >> >>
    /\ pc = "extracted"
    /\ normalized_instructions[1].is_section
    /\ normalized_instructions[1].section_name = << << "A", " ", "A" >> >>


-----------------------------------------------------------------------------
(* Claims about optional keys *)

MaxOptionalEntries == 2

\* a key that is absent, or present with the value v
Optional(v) == { << >>, << v >> }

\* structured ingredient entries with every subset of their keys
OptionalIngredients ==
    { [ order |-> o, ingredient |-> i, quantity |-> q] :
        o \in Optional(1),
        i \in { << >>, << [ name |-> << >> ] >>, << [ name |-> << << "f" >> >> ] >> },
        q \in { << >>, << [ amount |-> << >>, quantityType |-> << >> ] >>,
                Quantity(2, cup) } }

\* structured steps with every subset of their keys
OptionalSteps ==
    { [ order |-> o, step |-> s, isSection |-> b ] :
        o \in Optional(1), s \in Optional(<< "m", "i", "x" >>), b \in Optional(TRUE) }

\* recipes of both variants with every subset of their keys, and structured
\* recipes with every subset of the keys of their entries
OptionalRecipes ==
    { [ variant |-> "crumb", name |-> n, ingredients |-> i, steps |-> s, images |-> g,
        webLink |-> w, cookingDuration |-> c, serves |-> v, notes |-> t,
        neutritionalInfo |-> u ] :
        n \in Optional(SampleName),
        i \in Optional(<< Ingredient(<< 1 >>, << "f" >>, Quantity(2, cup)) >>),
        s \in Optional(<< PlainStep >>),
        g \in Optional(<< GoodPayload >>),
        w \in Optional(PhotoUrl), c \in Optional(45), v \in Optional(4),
        t \in Optional(<< "n" >>), u \in Optional(<< "u" >>) }
    \cup
    { [ CrumbBase EXCEPT !.ingredients = << l >> ] :
        l \in SeqsUpTo(OptionalIngredients, MaxOptionalEntries) }
    \cup
    { [ CrumbBase EXCEPT !.steps = << l >> ] :
        l \in SeqsUpTo(OptionalSteps, MaxOptionalEntries) }
    \cup
    { [ variant |-> "paprika", name |-> n, ingredients |-> i, directions |-> s,
        photo_data |-> g, photo |-> p, categories |-> k, prep_time |-> a,
        cook_time |-> c, source_url |-> w, servings |-> v, notes |-> t,
        nutritional_info |-> u, difficulty |-> d ] :
        n \in Optional(SampleName),
        i \in Optional(<< "f" >>),
        s \in Optional(<< "m", "i", "x" >>),
        g \in Optional(GoodPayload), p \in Optional(PhotoUrl),
        k \in Optional([ kind |-> "str", s |-> << "a", ",", "b" >> ]),
        a \in Optional(<< "5" >>), c \in Optional(<< "3", "0" >>),
        w \in Optional(PhotoUrl), v \in Optional(<< "4" >>),
        t \in Optional(<< "n" >>), u \in Optional(<< "u" >>), d \in Optional(<< "e" >>) }

InitOptional == \E r \in OptionalRecipes : Start(r)

SpecOptional == InitOptional /\ [][Next]_vars

\* the values the getters of the structured variant have put in place of
\* absent keys
C24_CrumbDefaults ==
    /\ recipe.ingredients = << >> => normalized_ingredients = << >>
    /\ \A i \in 1..Len(normalized_ingredients) :
          LET e == normalized_ingredients[i]
          IN  /\ e.raw.ingredient = << >> => e.name = << >>
              /\ e.raw.quantity = << >> => e.amount = StrVal(<< >>) /\ e.unit = << >>
    /\ recipe.steps = << >> => normalized_instructions = << >>
    /\ \A i \in 1..Len(normalized_instructions) :
          LET e == normalized_instructions[i]
          IN  /\ e.raw.step = << >> => e.text = << >>
              /\ (e.raw.step = << >> /\ e.raw.isSection = << >>) => ~ e.is_section
    /\ recipe.images = << >> => image_data_list = << >>
    /\ recipe.webLink = << >> => metadata.source_url = << >>
    /\ recipe.cookingDuration = << >> => metadata.cook_time = << "0", " ", "m", "i", "n", "u", "t", "e", "s" >>
    /\ recipe.serves = << >> => metadata.servings = StrVal(<< >>)
    /\ recipe.notes = << >> => metadata.notes = << >>
    /\ recipe.neutritionalInfo = << >> => metadata.nutrition_info = << >>

\* the values the getters of the flat variant have put in place of absent keys
C24_PaprikaDefaults ==
    /\ recipe.ingredients = << >> => normalized_ingredients = << >>
    /\ recipe.directions = << >> => normalized_instructions = << >>
    /\ (recipe.photo_data = << >> /\ recipe.photo = << >>) => image_data_list = << >>
    /\ recipe.source_url = << >> => metadata.source_url = << >>
    /\ recipe.cook_time = << >> => metadata.cook_time = << >>
    /\ recipe.servings = << >> => metadata.servings = StrVal(<< >>)
    /\ recipe.notes = << >> => metadata.notes = << >>
    /\ recipe.nutritional_info = << >> => metadata.nutrition_info = << >>
    /\ recipe.difficulty = << >> => metadata.difficulty = << >>

\* C24: for both variants and every subset of absent optional keys, at the
\* top level and inside structured entries, no getter raises; the getters
\* put the placeholder name, the empty string, zero or the empty sequence
\* in place of what is absent; and the conversion ends with its markdown
\* file written.
C24_AbsentKeysTolerated ==
    /\ pc # "raised"
    /\ pc \notin { "start", "parsed" } =>
          /\ recipe.name = << >> => recipe_name = << "U", "n", "n", "a", "m", "e", "d", " ", "R", "e", "c", "i", "p", "e" >>
          /\ IF recipe.variant = "crumb" THEN C24_CrumbDefaults ELSE C24_PaprikaDefaults
    /\ pc = "done" =>
          /\ OutputPath(recipe_name) \in DOMAIN files
          /\ files[OutputPath(recipe_name)] # << >>

\* a flat-variant recipe without any key was converted to Unnamed_Recipe.md
C24_Witness ==
    /\ recipe = [ variant |-> "paprika", name |-> << >>, ingredients |-> << >>,
                  directions |-> << >>, photo_data |-> << >>, photo |-> << >>,
                  categories |-> << >>, prep_time |-> << >>, cook_time |-> << >>,
                  source_url |-> << >>, servings |-> << >>, notes |-> << >>,
                  nutritional_info |-> << >>, difficulty |-> << >> ]
    /\ pc = "done"
    /\ << "U", "n", "n", "a", "m", "e", "d", "_", "R", "e", "c", "i", "p", "e", ".", "m", "d" >> \in DOMAIN files

\* a structured recipe whose only ingredient entry has no key was converted
C24_WitnessEntry ==
    /\ recipe.variant = "crumb"
    /\ recipe.ingredients = << << [ order |-> << >>, ingredient |-> << >>, quantity |-> << >> ] >> >>
    /\ pc = "done"
    /\ normalized_ingredients[1].name = << >>


-----------------------------------------------------------------------------
(* Claims about the flat variant's metadata and images *)

\* "30 minutes"
ThirtyMinutes == << "3", "0", " ", "m", "i", "n", "u", "t", "e", "s" >>

\* flat-variant recipes as tests/test_paprika.py:23-42 builds them, and
\* their variations: cook_time absent, a number or free text; categories
\* absent, a comma-separated text or a list; photo_data absent, null, empty
\* or base64; photo absent, empty or a URL
MetadataRecipes ==
    { [ PaprikaBase EXCEPT !.cook_time = c, !.categories = k, !.photo_data = g,
                           !.photo = p, !.servings = v, !.source_url = w ] :
        c \in { << >>, << << "3", "0" >> >>, << ThirtyMinutes >> },
        k \in { << >>, << [ kind |-> "str", s |-> << "a", ",", "b" >> ] >>,
                << [ kind |-> "list", s |-> << "a", ",", "b" >> ] >> },
        g \in { << >>, << NullPayload >>, << EmptyPayload >>, << GoodPayload >> },
        p \in { << >>, << << >> >>, << PhotoUrl >> },
        v \in Optional(<< "2" >>),
        w \in Optional(PhotoUrl) }

InitMetadata == \E r \in MetadataRecipes : Start(r)

SpecMetadata == InitMetadata /\ [][Next]_vars

\* the recipe data of the test: cook_time is free text, categories a list
\* and photo_data null
C25_SampleData ==
    /\ recipe.variant = "paprika"
    /\ recipe.cook_time = << ThirtyMinutes >>
    /\ recipe.categories # << >>
    /\ recipe.categories[1].kind = "list"
    /\ recipe.photo_data = << NullPayload >>

\* C25 as claimed: for recipe data whose cook_time is free text, whose
\* categories are a list and whose photo_data is null, get_metadata returns,
\* without raising, a mapping that holds the source, the servings and the
\* cook time.
C25_MetadataOfSampleData ==
    (C25_SampleData /\ pc \notin { "start", "parsed" }) =>
        /\ pc # "raised"
        /\ { "source_url", "servings", "cook_time" } \subseteq DOMAIN metadata

\* what holds of the code: get_metadata raises for a categories list and
\* for a cook_time or prep_time that int() does not read, and returns the
\* mapping otherwise
C25_MetadataRaisesOrReturns ==
    (recipe.variant = "paprika" /\ pc \notin { "start", "parsed" }) =>
        IF recipe.categories # << >> /\ recipe.categories[1].kind = "list"
        THEN pc = "raised" /\ exc = "AttributeError"
        ELSE IF recipe.cook_time = << ThirtyMinutes >>
        THEN pc = "raised" /\ exc = "ValueError"
        ELSE /\ pc # "raised"
             /\ { "source_url", "servings", "cook_time" } \subseteq DOMAIN metadata


\* the base64 photo field is present and non-empty
C26_HasPhotoData == recipe.photo_data # << >> /\ PayloadTruthy(recipe.photo_data[1])

\* the one base64 image of the recipe
C26_Base64 ==
    /\ Len(image_data_list) = 1
    /\ image_data_list[1].format = "base64"
    /\ image_data_list[1].data = recipe.photo_data[1]

\* the one URL image of the recipe
C26_Url ==
    /\ Len(image_data_list) = 1
    /\ image_data_list[1].format = "url"
    /\ image_data_list[1].url = recipe.photo[1]

\* C26 as claimed: get_images returns a base64 image when the base64 photo
\* field is present and non-empty, otherwise a URL image when the URL photo
\* field is present, otherwise nothing; never more than one image.
C26_UrlWhenPresent ==
    (recipe.variant = "paprika" /\ pc \notin { "start", "parsed" }) =>
        IF C26_HasPhotoData THEN C26_Base64
        ELSE IF recipe.photo # << >> THEN C26_Url
        ELSE image_data_list = << >>

\* C26, amended: get_images returns a base64 image when the base64 photo
\* field is present and non-empty, otherwise a URL image when the URL photo
\* field is present and non-empty, otherwise nothing; never more than one
\* image and never both kinds.
C26_AtMostOneImage ==
    (recipe.variant = "paprika" /\ pc \notin { "start", "parsed" }) =>
        /\ Len(image_data_list) <= 1
        /\ IF C26_HasPhotoData THEN C26_Base64
           ELSE IF recipe.photo # << >> /\ recipe.photo[1] # << >> THEN C26_Url
           ELSE image_data_list = << >>

\* a recipe with both photo fields gave the base64 image alone
C26_Witness ==
    /\ recipe.variant = "paprika"
    /\ recipe.photo_data = << GoodPayload >>
    /\ recipe.photo = << PhotoUrl >>
    /\ pc = "extracted"
    /\ Len(image_data_list) = 1
    /\ image_data_list[1].format = "base64"

\* a recipe whose photo_data is null gave the URL image
C26_WitnessUrl ==
    /\ recipe.variant = "paprika"
    /\ recipe.photo_data = << NullPayload >>
    /\ recipe.photo = << PhotoUrl >>
    /\ pc = "extracted"
    /\ Len(image_data_list) = 1
    /\ image_data_list[1].format = "url"


-----------------------------------------------------------------------------
(* Claims about the lifetime of the registry *)

\* the lower-cased extensions passed to the register_parser calls so far
C27_EverRegistered ==
    UNION { { Lower(calls[c].extensions[i]) : i \in 1..Len(calls[c].extensions) } :
            c \in 1..Len(calls) }

\* C27: after any sequence of register_parser calls, get_supported_extensions
\* returns exactly the lower-cased extensions passed to the calls so far,
\* each once, so that no extension is ever lost; each of them resolves to a
\* parser, and to the parser of the most recent call that registered it.
C27_RegistryNeverLoses ==
    LET keys == GetSupportedExtensions(PARSERS)
    IN  /\ Range(keys) = C27_EverRegistered
        /\ \A i, j \in 1..Len(keys) : i # j => keys[i] # keys[j]
        /\ \A i \in 1..Len(keys) :
              /\ GetParserForExtension(PARSERS, keys[i]) \in ParserClasses
              /\ GetParserForExtension(PARSERS, keys[i])
                    = C13_Registered(keys[i], Len(calls))

\* crumb, registered for CrumbParser at import, was registered again in
\* another letter case for PaprikaParser, and is listed once
C27_Witness ==
    /\ Len(calls) >= 2
    /\ calls[1].parser_class = CrumbParser
    /\ calls[1].extensions = << crumb >>
    /\ \E c \in 2..Len(calls) : \E i \in 1..Len(calls[c].extensions) :
          /\ calls[c].extensions[i] = << "C", "r", "U", "m", "B" >>
          /\ calls[c].parser_class = PaprikaParser
    /\ GetParserForExtension(PARSERS, crumb) = PaprikaParser
    /\ Cardinality({ i \in 1..Len(PARSERS) : PARSERS[i].key = crumb }) = 1


-----------------------------------------------------------------------------
(* Claims about parse_file *)

\* single-recipe files whose extension is written in lower, upper and mixed
\* case: two recipes, one with a photo, and a file that is not gzip
SingleFiles ==
    { [ path |-> p, content |-> c ] :
        p \in { << "c", ".", "p", "a", "p", "r", "i", "k", "a", "r", "e", "c", "i", "p", "e" >>, << "c", ".", "P", "A", "P", "R", "I", "K", "A", "R", "E", "C", "I", "P", "E" >>, << "c", ".", "P", "a", "p", "r", "i", "k", "a", "R", "e", "c", "i", "p", "e" >> },
        c \in { Gzip(Named(PaprikaBase, << "C" >>)),
                Gzip([ Named(PaprikaBase, << "P" >>) EXCEPT !.photo_data = << GoodPayload >> ]),
                [ kind |-> "garbage" ] } }

\* convert_to_markdown(file, output_dir) finds the parser in the registry
InitExtensions ==
    \E file \in SingleFiles \cup ArchiveFiles : Call(file, "None", << >>, ImportedPaprika)

SpecExtensions == InitExtensions /\ [][NextConvert]_vars

\* C28 as claimed: for every path whose extension the registry resolves to
\* PaprikaParser, in whatever letter case, parse_file returns a recipe
\* mapping or raises, so that the getters always receive a mapping.
C28_ParseFileNeverNone ==
    /\ (parser_class = PaprikaParser /\ pc = "parsed") => recipe # NoneRecipe
    /\ (parser_class = PaprikaParser /\ pc = "raised") => message # ErrorText("NoneType")

\* what holds of the code: parse_file returns a mapping or raises for the
\* extensions written in lower case, and returns no value for every other
\* spelling
C28_NoneUnlessLowerCase ==
    (parser_class = PaprikaParser /\ pc = "parsed") =>
        (recipe = NoneRecipe
            <=> GetFileExtension(source.path) \notin { paprikarecipe, paprikarecipes })


\* C29 as claimed: every temporary directory that parse_file creates for an
\* archive is removed again before parse_file returns or raises, on every
\* path.
C29_TempDirsRemoved == temp_dirs = 0

\* what holds of the code: the directory is removed when parse_file returns
\* a recipe and when the archive cannot be opened; it is left behind when
\* the extracted directory holds no recipe file at its top level and when
\* the first recipe file fails to decompress
C29_RemovedOnTwoPaths ==
    (GetFileExtension(source.path) = paprikarecipes /\ pc # "start") =>
        IF pc # "raised" \/ source.content.kind # "zip"
        THEN temp_dirs = 0
        ELSE temp_dirs = 1


-----------------------------------------------------------------------------
(* Conversions that run in worker threads at once: batch.py:193-204 submits
   every convert_file call to the pool, and no lock is taken around the
   writes of formatter.py:98-101 and formatter.py:205-207 *)

\* the file after a handle opened at offset 0 flushes content into it: the
\* bytes beyond the content stay as they are
Overwrite(old, content) == content \o SubSeq(old, Len(content) + 1, Len(old))

\* the files save_image writes for the images of one recipe, in order
\* (formatter.py:92-104)
ImageWrites(images) ==
    LET kept == SelectSeq(images, LAMBDA im : SaveImage(im, << >>, "ok").written)
    IN  [ k \in 1..Len(kept) |->
            [ path |-> ImagesPrefix \o kept[k].filename,
              content |-> B64Decode(kept[k].data) ] ]

\* the markdown file convert_to_markdown writes for recipe r
\* (formatter.py:150-153 and 205-207)
MarkdownWrite(r) ==
    LET name == GetRecipeName(r)
    IN  [ path |-> OutputPath(name),
          content |-> Join(MdContent(name, GetMetadata(r),
                                     SavedImages(GetImages(r), << >>, "ok").image_paths,
                                     FormatIngredients(GetIngredients(r)).val,
                                     FormatInstructions(GetInstructions(r))),
                           << "\n" >>) ]

\* every file one conversion of r writes, in the order it writes them
Writes(r) == Append(ImageWrites(GetImages(r)), MarkdownWrite(r))

Threads == 1..2

Finished(t) == conversions[t].pos > Len(conversions[t].writes)

\* open(path, "w") or open(path, "wb") in thread t: the file is created, or
\* truncated when it exists
OpenOutput(t) ==
    /\ conversions # << >>
    /\ ~ Finished(t)
    /\ ~ conversions[t].open
    /\ LET w == conversions[t].writes[conversions[t].pos]
       IN  /\ files' = WriteFile(files, w.path, << >>)
           /\ write_log' = Append(write_log, [ thread |-> t, path |-> w.path, op |-> "open" ])
    /\ conversions' = [ conversions EXCEPT ![t].open = TRUE ]
    /\ UNCHANGED << recipe, pc, recipe_name, normalized_ingredients, normalized_instructions,
                    image_data_list, metadata, ingredients_list, directions, image_paths,
                    img_idx, decoded, opened, saved, failed, formatted_steps,
                    images_dir, exc, message, source, parser_class, temp_dirs, PARSERS,
                    calls, lookup, input_dir, extensions, max_workers, batch_pc,
                    recipe_files, futures, results, successful_conversions,
                    failed_conversions >>

\* f.write and the close at the end of the with block in thread t: the
\* buffered content reaches the file at the handle's offset 0
WriteOutput(t) ==
    /\ conversions # << >>
    /\ ~ Finished(t)
    /\ conversions[t].open
    /\ LET w == conversions[t].writes[conversions[t].pos]
       IN  /\ files' = [ files EXCEPT ![w.path] = Overwrite(files[w.path], w.content) ]
           /\ write_log' = Append(write_log, [ thread |-> t, path |-> w.path, op |-> "write" ])
    /\ conversions' = [ conversions EXCEPT ![t].open = FALSE, ![t].pos = @ + 1 ]
    /\ UNCHANGED << recipe, pc, recipe_name, normalized_ingredients, normalized_instructions,
                    image_data_list, metadata, ingredients_list, directions, image_paths,
                    img_idx, decoded, opened, saved, failed, formatted_steps,
                    images_dir, exc, message, source, parser_class, temp_dirs, PARSERS,
                    calls, lookup, input_dir, extensions, max_workers, batch_pc,
                    recipe_files, futures, results, successful_conversions,
                    failed_conversions >>

NextThreads == \E t \in Threads : OpenOutput(t) \/ WriteOutput(t)

(* Explored inputs: two recipes of either variant that the pool converts at
   once into one empty output directory *)

ThreadNames == { << "x" >>, << "x", "_", "0" >>, << "x", " ", "0" >> }

ThreadNotes == { << >>, << << "n" >> >> }

ThreadRecipes ==
    { [ CrumbBase EXCEPT !.name = << n >>, !.images = im, !.notes = nt ] :
        n \in ThreadNames, im \in { << >>, << << GoodPayload >> >> }, nt \in ThreadNotes }
    \cup
    { [ PaprikaBase EXCEPT !.name = << n >>, !.photo_data = ph, !.notes = nt ] :
        n \in ThreadNames, ph \in { << >>, << GoodPayload >> }, nt \in ThreadNotes }

InitThreads ==
    \E r1 \in ThreadRecipes : \E r2 \in ThreadRecipes :
        /\ Fresh("idle", SourceOf(CrumbBase), "None", << >>, ImportedPaprika)
        /\ input_dir = { }
        /\ extensions = "None"
        /\ max_workers = 2
        /\ batch_pc = "collecting"
        /\ recipe_files = << >>
        /\ futures = << >>
        /\ results = << >>
        /\ successful_conversions = 0
        /\ failed_conversions = 0
        /\ conversions = << [ recipe |-> r1, writes |-> Writes(r1), pos |-> 1, open |-> FALSE ],
                            [ recipe |-> r2, writes |-> Writes(r2), pos |-> 1, open |-> FALSE ] >>
        /\ write_log = << >>

SpecThreads == InitThreads /\ [][NextThreads]_vars


-----------------------------------------------------------------------------
(* Claims about conversions that run at once *)

C21_BothFinished == IF conversions = << >> THEN FALSE ELSE Finished(1) /\ Finished(2)

C21_Md(t) == MarkdownWrite(conversions[t].recipe)

C21_SameOutput == C21_Md(1).path = C21_Md(2).path

\* the thread whose write of the markdown file completed last
C21_LastWriter ==
    LET at == { i \in 1..Len(write_log) :
                  write_log[i].op = "write" /\ write_log[i].path = C21_Md(1).path }
    IN  write_log[CHOOSE i \in at : \A j \in at : j <= i].thread

\* C21 as claimed: when two conversions that run at once write the same
\* markdown file, then after both have completed the file holds exactly the
\* complete rendering of the conversion that wrote last, never a mix of the
\* two renderings.
C21_LastWriterWins ==
    (C21_BothFinished /\ C21_SameOutput) =>
        files[C21_Md(1).path] = C21_Md(C21_LastWriter).content

\* what holds of the code: the file begins with the rendering of the
\* conversion that wrote last; when both handles were open at once the end
\* of the longer rendering of the other conversion stays behind it
C21_LastWriterIsPrefix ==
    (C21_BothFinished /\ C21_SameOutput) =>
        LET last  == C21_Md(C21_LastWriter).content
            other == C21_Md(3 - C21_LastWriter).content
        IN  files[C21_Md(1).path] \in { last, Overwrite(other, last) }

\* a finished run of two conversions into one markdown file that leaves a
\* file neither conversion rendered
C21_Mixed ==
    /\ C21_BothFinished
    /\ C21_SameOutput
    /\ files[C21_Md(1).path] \notin { C21_Md(1).content, C21_Md(2).content }

C30_Touched(t) == { write_log[i].path : i \in { j \in 1..Len(write_log) : write_log[j].thread = t } }

C30_Name(t) == GetRecipeName(conversions[t].recipe)

\* C30 as claimed: two conversions whose recipe names sanitize to different
\* strings write disjoint sets of files in a shared output directory,
\* whichever variants the recipes come from and however the conversions
\* interleave.
C30_DisjointFiles ==
    IF conversions = << >> THEN TRUE
    ELSE Sanitize(C30_Name(1)) # Sanitize(C30_Name(2)) =>
            C30_Touched(1) \cap C30_Touched(2) = { }

\* what holds of the code: the markdown files of such conversions differ,
\* and the image files differ when both recipes come from the same variant
C30_DisjointWithinVariant ==
    IF conversions = << >> THEN TRUE
    ELSE Sanitize(C30_Name(1)) # Sanitize(C30_Name(2)) =>
            /\ C21_Md(1).path # C21_Md(2).path
            /\ conversions[1].recipe.variant = conversions[2].recipe.variant
                  => C30_Touched(1) \cap C30_Touched(2) = { }

\* two conversions of differently sanitized names that wrote one image file
C30_SharedImage ==
    IF conversions = << >> THEN FALSE
    ELSE /\ Sanitize(C30_Name(1)) # Sanitize(C30_Name(2))
         /\ C30_Touched(1) \cap C30_Touched(2) # { }

====
